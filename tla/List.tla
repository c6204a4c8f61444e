-------------------------------- MODULE List --------------------------------
(***************************************************************************)
(* lib/kernel/list.c at the level of its pointers: doubly linked lists     *)
(* with a head and a tail element of their own.  Every caller in the kernel*)
(* holds a lock or has interrupts off, so one operation is one step.       *)
(*                                                                         *)
(* An operation is a function of the memory m, a record of the prev and    *)
(* the next fields, so that list_sort and list_unique can be composed of   *)
(* list_splice, list_remove and list_push_back, as they are in the code.   *)
(***************************************************************************)
EXTENDS Integers, Sequences, FiniteSets

CONSTANTS
  Elem,        \* the list elements
  Lists,       \* the lists
  Key,         \* Key[e]: what the less function compares
  Nil          \* NULL

VARIABLES
  mem,         \* mem.prev[n], mem.next[n]: the two pointers of element n
  result       \* what the last operation returned: a pointer, or <<n>> for
               \* the number n

vars == <<mem, result>>

HeadOf(l) == <<l, "head">>
TailOf(l) == <<l, "tail">>
Node == Elem \cup {HeadOf(l) : l \in Lists} \cup {TailOf(l) : l \in Lists}

less(a, b) == Key[a] < Key[b]

list_begin(m, l) == m.next[HeadOf(l)]
list_empty(m, l) == list_begin(m, l) = TailOf(l)

is_interior(m, e) == m.prev[e] # Nil /\ m.next[e] # Nil
is_tail(m, e) == m.prev[e] # Nil /\ m.next[e] = Nil

SetPrev(m, e, to) == [m EXCEPT !.prev[e] = to]
SetNext(m, e, to) == [m EXCEPT !.next[e] = to]

\* elem in front of before: the four assignments, in their order.
list_insert(m, before, elem) ==
  LET m1 == SetPrev(m, elem, m.prev[before])
      m2 == SetNext(m1, elem, before)
      m3 == SetNext(m2, m2.prev[before], elem)
  IN SetPrev(m3, before, elem)

list_push_front(m, l, elem) == list_insert(m, list_begin(m, l), elem)
list_push_back(m, l, elem) == list_insert(m, TailOf(l), elem)

\* The code leaves the pointers of elem as they were; they are cleared here,
\* as nothing but an insertion, which overwrites both, may use them.
list_remove(m, elem) ==
  LET m1 == SetNext(m, m.prev[elem], m.next[elem])
      m2 == SetPrev(m1, m1.next[elem], m1.prev[elem])
  IN SetNext(SetPrev(m2, elem, Nil), elem, Nil)

\* first up to, but not including, end move in front of before.
list_splice(m, before, first, end) ==
  LET last == m.prev[end]
      m1 == SetNext(m, m.prev[first], m.next[last])
      m2 == SetPrev(m1, m1.next[last], m1.prev[first])
      m3 == SetPrev(m2, first, m2.prev[before])
      m4 == SetNext(m3, last, before)
      m5 == SetNext(m4, m4.prev[before], first)
  IN IF first = end THEN m ELSE SetPrev(m5, before, last)

\* The pointers of every element from e to the tail are swapped; e->prev is
\* the old e->next by then.
RECURSIVE SwapAll(_, _, _)
SwapAll(m, l, e) ==
  IF e = TailOf(l) THEN m
  ELSE LET s == SetNext(SetPrev(m, e, m.next[e]), e, m.prev[e])
       IN SwapAll(s, l, s.prev[e])

list_reverse(m, l) ==
  LET m1 == SwapAll(m, l, list_begin(m, l))
      m2 == SetPrev(SetNext(m1, HeadOf(l), m1.prev[TailOf(l)]),
                    TailOf(l), m1.next[HeadOf(l)])
      front == m2.next[HeadOf(l)]
      back == m2.prev[TailOf(l)]
  IN IF list_empty(m, l) THEN m
     ELSE SetNext(SetPrev(m2, front, m2.next[back]), back, m2.prev[front])

RECURSIVE InsertionPoint(_, _, _, _)
InsertionPoint(m, l, e, elem) ==
  IF e = TailOf(l) \/ less(elem, e) THEN e
  ELSE InsertionPoint(m, l, m.next[e], elem)

list_insert_ordered(m, l, elem) ==
  list_insert(m, InsertionPoint(m, l, list_begin(m, l), elem), elem)

\* The end of the nondecreasing run that starts at a, at b at the latest.
RECURSIVE find_end_of_run(_, _, _)
find_end_of_run(m, a, b) ==
  LET n == m.next[a]
  IN IF n = b \/ less(n, m.prev[n]) THEN n ELSE find_end_of_run(m, n, b)

\* Changed form, for the mutation runs: of two equal elements the later one
\* is taken first.
RECURSIVE inplace_merge_unstable(_, _, _, _)
inplace_merge_unstable(m, a0, a1b0, b1) ==
  IF a0 = a1b0 \/ a1b0 = b1 THEN m
  ELSE IF less(a0, a1b0) THEN inplace_merge_unstable(m, m.next[a0], a1b0, b1)
  ELSE LET n == m.next[a1b0]
       IN inplace_merge_unstable(list_splice(m, a0, m.prev[n], n), a0, n, b1)

RECURSIVE inplace_merge(_, _, _, _)
inplace_merge(m, a0, a1b0, b1) ==
  IF a0 = a1b0 \/ a1b0 = b1 THEN m
  ELSE IF ~less(a1b0, a0) THEN inplace_merge(m, m.next[a0], a1b0, b1)
  ELSE LET n == m.next[a1b0]
       IN inplace_merge(list_splice(m, a0, m.prev[n], n), a0, n, b1)

\* One pass over the list from a0, merging adjacent runs in pairs: the list
\* and the number of runs it now has.
RECURSIVE MergePass(_, _, _, _)
MergePass(m, l, a0, output_run_cnt) ==
  IF a0 = TailOf(l) THEN <<m, output_run_cnt>>
  ELSE LET a1b0 == find_end_of_run(m, a0, TailOf(l))
           b1 == find_end_of_run(m, a1b0, TailOf(l))
       IN IF a1b0 = TailOf(l) THEN <<m, output_run_cnt + 1>>
          ELSE MergePass(inplace_merge(m, a0, a1b0, b1), l, b1, output_run_cnt + 1)

RECURSIVE list_sort(_, _)
list_sort(m, l) ==
  LET pass == MergePass(m, l, list_begin(m, l), 0)
  IN IF pass[2] > 1 THEN list_sort(pass[1], l) ELSE pass[1]

RECURSIVE UniqueFrom(_, _, _, _)
UniqueFrom(m, l, duplicates, elem) ==
  LET next == m.next[elem]
  IN IF next = TailOf(l) THEN m
     ELSE IF ~less(elem, next) /\ ~less(next, elem)
     THEN UniqueFrom(list_push_back(list_remove(m, next), duplicates, next),
                     l, duplicates, elem)
     ELSE UniqueFrom(m, l, duplicates, next)

list_unique(m, l, duplicates) ==
  IF list_empty(m, l) THEN m ELSE UniqueFrom(m, l, duplicates, list_begin(m, l))

RECURSIVE list_max(_, _, _, _)
list_max(m, l, max, e) ==
  IF e = TailOf(l) THEN max
  ELSE list_max(m, l, IF less(max, e) THEN e ELSE max, m.next[e])

RECURSIVE list_min(_, _, _, _)
list_min(m, l, min, e) ==
  IF e = TailOf(l) THEN min
  ELSE list_min(m, l, IF less(e, min) THEN e ELSE min, m.next[e])

RECURSIVE list_size(_, _, _, _)
list_size(m, l, e, cnt) ==
  IF e = TailOf(l) THEN cnt ELSE list_size(m, l, m.next[e], cnt + 1)

\* The elements from e to the tail, front first.
RECURSIVE Walk(_, _, _)
Walk(m, l, e) == IF e = TailOf(l) THEN << >> ELSE <<e>> \o Walk(m, l, m.next[e])
Elements(l) == Walk(mem, l, list_begin(mem, l))

Members(l) == {Elements(l)[i] : i \in DOMAIN Elements(l)}
Unlisted == Elem \ UNION {Members(l) : l \in Lists}

\* list_init of every list.
Init ==
  /\ mem = [prev |-> [n \in Node |-> IF \E l \in Lists : n = TailOf(l)
                                     THEN HeadOf(n[1]) ELSE Nil],
            next |-> [n \in Node |-> IF \E l \in Lists : n = HeadOf(l)
                                     THEN TailOf(n[1]) ELSE Nil]]
  /\ result = Nil

Becomes(m) == mem' = m /\ result' = Nil
Returns(r) == mem' = mem /\ result' = r

\* In front of an element of list l, or of its tail.
Insert(l) ==
  \E e \in Unlisted : \E before \in Members(l) \cup {TailOf(l)} :
    Becomes(list_insert(mem, before, e))

PushFront(l) == \E e \in Unlisted : Becomes(list_push_front(mem, l, e))
PushBack(l) == \E e \in Unlisted : Becomes(list_push_back(mem, l, e))
InsertOrdered(l) == \E e \in Unlisted : Becomes(list_insert_ordered(mem, l, e))

\* Asserted: the element has both neighbours.
Remove(l) ==
  \E e \in Members(l) :
    /\ is_interior(mem, e)
    /\ mem' = list_remove(mem, e)
    /\ result' = mem.next[e]

PopFront(l) ==
  /\ ~list_empty(mem, l)
  /\ mem' = list_remove(mem, mem.next[HeadOf(l)])
  /\ result' = mem.next[HeadOf(l)]

PopBack(l) ==
  /\ ~list_empty(mem, l)
  /\ mem' = list_remove(mem, mem.prev[TailOf(l)])
  /\ result' = mem.prev[TailOf(l)]

\* A stretch of list l moves to a place that is not inside the stretch.
Splice(l) ==
  \E i, j \in 1 .. Len(Elements(l)) + 1, k \in Lists :
    \E before \in Members(k) \cup {TailOf(k)} :
      LET at == Append(Elements(l), TailOf(l))
      IN /\ i <= j
         /\ \A n \in i .. j - 1 : before # at[n]
         /\ is_interior(mem, before) \/ is_tail(mem, before)
         /\ Becomes(list_splice(mem, before, at[i], at[j]))

Reverse(l) == Becomes(list_reverse(mem, l))
Sort(l) == Becomes(list_sort(mem, l))
Unique(l) == \E k \in Lists \ {l} : Becomes(list_unique(mem, l, k))

Max(l) ==
  Returns(IF list_empty(mem, l) THEN TailOf(l)
          ELSE list_max(mem, l, list_begin(mem, l), mem.next[list_begin(mem, l)]))

Min(l) ==
  Returns(IF list_empty(mem, l) THEN TailOf(l)
          ELSE list_min(mem, l, list_begin(mem, l), mem.next[list_begin(mem, l)]))

Size(l) == Returns(<<list_size(mem, l, list_begin(mem, l), 0)>>)

Next ==
  \E l \in Lists :
    \/ Insert(l) \/ PushFront(l) \/ PushBack(l) \/ InsertOrdered(l)
    \/ Remove(l) \/ PopFront(l) \/ PopBack(l) \/ Splice(l)
    \/ Reverse(l) \/ Sort(l) \/ Unique(l)
    \/ Max(l) \/ Min(l) \/ Size(l)

Spec == Init /\ [][Next]_vars

-----------------------------------------------------------------------------
\* Every pointer is to an element, a head, a tail or NULL.
TypeOK ==
  /\ mem \in [prev : [Node -> Node \cup {Nil}], next : [Node -> Node \cup {Nil}]]
  /\ result \in Node \cup {Nil} \cup {<<n>> : n \in 0 .. Cardinality(Elem)}

\* The two directions agree: following next and then prev, or prev and then
\* next, leads back; only a head lacks a prev and only a tail lacks a next;
\* no element is linked unless it is in a list.
LinksAgree ==
  /\ \A n \in Node : mem.next[n] # Nil => mem.prev[mem.next[n]] = n
  /\ \A n \in Node : mem.prev[n] # Nil => mem.next[mem.prev[n]] = n
  /\ \A l \in Lists : mem.prev[HeadOf(l)] = Nil /\ mem.next[TailOf(l)] = Nil
  /\ \A e \in Unlisted : mem.prev[e] = Nil /\ mem.next[e] = Nil

\* The pointer operations, list_sort's natural merge sort included, have the
\* effect on the sequences of elements that list.h and the comments of list.c
\* state: the sort is stable, an equal element is inserted behind its equals,
\* and the first of several maxima or minima is found.
IsTail(r) == \E l \in Lists : r = TailOf(l)

Abstract == INSTANCE SeqLists WITH
  seqs <- [l \in Lists |-> Elements(l)],
  result <- IF IsTail(result) THEN Nil ELSE result

ImplementsSeqLists == Abstract!Spec
=============================================================================

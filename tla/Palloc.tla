------------------------------- MODULE Palloc -------------------------------
(***************************************************************************)
(* The page allocator, threads/palloc.c, on the bitmaps of                 *)
(* lib/kernel/bitmap.c, bit by bit: palloc_get_multiple () scans and marks *)
(* under the pool's lock, palloc_free_multiple () clears bits without it.  *)
(* Every test and every change of a bit is an action, so that the calls    *)
(* interleave in every way.                                                *)
(***************************************************************************)
EXTENDS Integers, FiniteSets

CONSTANTS
  Thread, None,
  FreePages,         \* pages above 1 MB
  user_page_limit,
  BitmapPages,       \* pages the bitmap of a pool takes
  PageCnt            \* numbers of pages asked for

\* palloc_init () and init_pool (): where each pool starts and how many pages it has.
UserPages == IF FreePages \div 2 > user_page_limit THEN user_page_limit ELSE FreePages \div 2
KernelPages == FreePages - UserPages
Pool == {"kernel", "user"}
base == [p \in Pool |-> BitmapPages + IF p = "kernel" THEN 0 ELSE KernelPages]
bit_cnt == [p \in Pool |-> (IF p = "kernel" THEN KernelPages ELSE UserPages) - BitmapPages]

ASSUME PallocAssumption ==
  /\ None \notin Thread /\ PageCnt \subseteq Nat \ {0}
  /\ FreePages \in Nat /\ user_page_limit \in Nat /\ BitmapPages \in Nat
  /\ \A p \in Pool : bit_cnt[p] \in Nat

VARIABLES
  used_map,    \* the bits of each pool
  lock,        \* holder of the pool's lock, or None
  pc,
  loc,         \* a call's pool, cnt, and the indices of its loops
  held,        \* runs of pages given out: owner, page and cnt
  halted       \* "no", or why the kernel stopped: "out of pages", "assertion"

vars == <<used_map, lock, pc, loc, held, halted>>

NoLoc == [pool |-> "kernel", cnt |-> 0, i |-> 0, j |-> 0]
Goto(t, label) == pc' = [pc EXCEPT ![t] = label]
Return(t) == pc' = [pc EXCEPT ![t] = "idle"] /\ loc' = [loc EXCEPT ![t] = NoLoc]

-----------------------------------------------------------------------------
(* palloc_get_multiple ().                                                 *)

\* Changed form, for the mutation runs: the scan does not wait for the lock.
palloc_get_multiple_unlocked(t) ==
  /\ pc[t] = "idle"
  /\ \E p \in Pool, n \in PageCnt :
       /\ lock' = [lock EXCEPT ![p] = t]
       /\ loc' = [loc EXCEPT ![t] = [NoLoc EXCEPT !.pool = p, !.cnt = n]]
  /\ Goto(t, "scan")
  /\ UNCHANGED <<used_map, held, halted>>

palloc_get_multiple(t) ==
  /\ pc[t] = "idle"
  /\ \E p \in Pool, n \in PageCnt :
       /\ lock[p] = None
       /\ lock' = [lock EXCEPT ![p] = t]
       /\ loc' = [loc EXCEPT ![t] = [NoLoc EXCEPT !.pool = p, !.cnt = n]]
  /\ Goto(t, "scan")
  /\ UNCHANGED <<used_map, held, halted>>

\* bitmap_scan () and bitmap_contains (): one test, of bit i + j.
bitmap_scan(t) ==
  LET l == loc[t]
      p == l.pool
  IN  /\ pc[t] = "scan"
      /\ \/ /\ l.cnt > bit_cnt[p] \/ l.i > bit_cnt[p] - l.cnt      \* BITMAP_ERROR
            /\ Return(t)
            /\ lock' = [lock EXCEPT ![p] = None]
            /\ halted' \in {"no", "out of pages"}                   \* the latter if PAL_ASSERT
         \/ /\ l.cnt <= bit_cnt[p] /\ l.i <= bit_cnt[p] - l.cnt
            /\ UNCHANGED <<lock, halted>>
            /\ IF l.j = l.cnt THEN Goto(t, "mark") /\ loc' = [loc EXCEPT ![t].j = 0]
               ELSE IF used_map[p][l.i + l.j]
               THEN loc' = [loc EXCEPT ![t].i = @ + 1, ![t].j = 0] /\ UNCHANGED pc
               ELSE loc' = [loc EXCEPT ![t].j = @ + 1] /\ UNCHANGED pc
      /\ UNCHANGED <<used_map, held>>

\* bitmap_set_multiple (..., true): bitmap_mark () of bit i + j; at the end the lock is
\* released and the caller has the pages.
bitmap_mark(t) ==
  LET l == loc[t]
      p == l.pool
  IN  /\ pc[t] = "mark"
      /\ \/ /\ l.j < l.cnt
            /\ used_map' = [used_map EXCEPT ![p][l.i + l.j] = TRUE]
            /\ loc' = [loc EXCEPT ![t].j = @ + 1]
            /\ UNCHANGED <<lock, pc, held>>
         \/ /\ l.j = l.cnt
            /\ lock' = [lock EXCEPT ![p] = None]
            /\ held' = held \cup {[owner |-> t, page |-> base[p] + l.i, cnt |-> l.cnt]}
            /\ Return(t)
            /\ UNCHANGED used_map
      /\ UNCHANGED halted

-----------------------------------------------------------------------------
(* palloc_free_multiple ().                                                *)

page_from_pool(p, page) == page >= base[p] /\ page < base[p] + bit_cnt[p]

\* The pool the pages are from; NOT_REACHED () when they are from neither.
palloc_free_multiple(t) ==
  /\ pc[t] = "idle"
  /\ \E r \in held :
       /\ r.owner = t
       /\ held' = held \ {r}
       /\ \/ \E p \in Pool :
               /\ page_from_pool(p, r.page)
               /\ loc' = [loc EXCEPT ![t] = [pool |-> p, cnt |-> r.cnt, i |-> r.page - base[p], j |-> 0]]
               /\ Goto(t, "all")
               /\ UNCHANGED halted
          \/ /\ \A p \in Pool : ~page_from_pool(p, r.page)
             /\ halted' = "assertion"
             /\ UNCHANGED <<pc, loc>>
  /\ UNCHANGED <<used_map, lock>>

\* bitmap_all (): one test, of bit i + j; the assertion fails on a clear bit.
bitmap_all(t) ==
  LET l == loc[t]
  IN  /\ pc[t] = "all"
      /\ \/ /\ l.j = l.cnt
            /\ loc' = [loc EXCEPT ![t].j = 0] /\ Goto(t, "clear")
            /\ UNCHANGED halted
         \/ /\ l.j < l.cnt
            /\ halted' = IF used_map[l.pool][l.i + l.j] THEN halted ELSE "assertion"
            /\ loc' = [loc EXCEPT ![t].j = @ + 1] /\ UNCHANGED pc
      /\ UNCHANGED <<used_map, lock, held>>

\* bitmap_set_multiple (..., false): bitmap_reset () of bit i + j.
bitmap_reset(t) ==
  LET l == loc[t]
  IN  /\ pc[t] = "clear"
      /\ used_map' = [used_map EXCEPT ![l.pool][l.i + l.j] = FALSE]
      /\ IF l.j + 1 = l.cnt THEN Return(t) ELSE loc' = [loc EXCEPT ![t].j = @ + 1] /\ UNCHANGED pc
      /\ UNCHANGED <<lock, held, halted>>

Init ==
  /\ used_map = [p \in Pool |-> [k \in 0 .. bit_cnt[p] - 1 |-> FALSE]]
  /\ lock = [p \in Pool |-> None]
  /\ pc = [t \in Thread |-> "idle"] /\ loc = [t \in Thread |-> NoLoc]
  /\ held = {} /\ halted = "no"

Next ==
  \E t \in Thread :
    \/ palloc_get_multiple(t) \/ bitmap_scan(t) \/ bitmap_mark(t)
    \/ palloc_free_multiple(t) \/ bitmap_all(t) \/ bitmap_reset(t)

Spec == Init /\ [][halted = "no" /\ Next]_vars

-----------------------------------------------------------------------------
(* Properties.                                                             *)

\* Type invariant.
TypeOK ==
  /\ \A p \in Pool : used_map[p] \in [0 .. bit_cnt[p] - 1 -> BOOLEAN]
  /\ lock \in [Pool -> Thread \cup {None}]
  /\ \A t \in Thread : loc[t].i \in 0 .. FreePages /\ loc[t].j \in 0 .. loc[t].cnt
  /\ \A r \in held : r.page \in 0 .. FreePages - 1

Pages(r) == r.page .. r.page + r.cnt - 1

\* Pages a call is about to hand out, or has not yet cleared.
Marking(t) ==
  IF pc[t] = "mark" THEN base[loc[t].pool] + loc[t].i .. base[loc[t].pool] + loc[t].i + loc[t].j - 1
  ELSE IF pc[t] = "all" THEN base[loc[t].pool] + loc[t].i .. base[loc[t].pool] + loc[t].i + loc[t].cnt - 1
  ELSE IF pc[t] = "clear"
  THEN base[loc[t].pool] + loc[t].i + loc[t].j .. base[loc[t].pool] + loc[t].i + loc[t].cnt - 1
  ELSE {}

\* No page belongs to two callers, and the pages that hold the bitmaps to none.
PagesExclusive ==
  /\ \A r, s \in held : r # s => Pages(r) \cap Pages(s) = {}
  /\ \A r \in held : \E p \in Pool :
       Pages(r) \subseteq base[p] .. base[p] + bit_cnt[p] - 1

\* A bit is set exactly while its page is given out or a call is giving it out or
\* taking it back, although pages are freed without the lock: no page is lost, and
\* the assertions in palloc_free_multiple () hold.
BitsExact ==
  /\ halted # "assertion"
  /\ \A p \in Pool : \A k \in 0 .. bit_cnt[p] - 1 :
       used_map[p][k] <=>
         base[p] + k \in UNION ({Pages(r) : r \in held} \cup {Marking(t) : t \in Thread})

\* What palloc_get_multiple () and palloc_free_multiple () promise together: nobody
\* shares a page, and the bitmap says who has one.
AllocatorExact == TypeOK /\ PagesExclusive /\ BitsExact
=============================================================================

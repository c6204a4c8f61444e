---------------------------- MODULE PallocProofs ----------------------------
(***************************************************************************)
(* What Palloc promises, proved for any number of threads, any size of the *)
(* two pools and requests of any length.                                   *)
(***************************************************************************)
EXTENDS Palloc, TLAPS

-----------------------------------------------------------------------------
(* The inductive invariant, in parts.                                      *)

Types ==
  /\ DOMAIN used_map = Pool
  /\ \A p \in Pool : used_map[p] \in [0 .. bit_cnt[p] - 1 -> BOOLEAN]
  /\ lock \in [Pool -> Thread \cup {None}]
  /\ pc \in [Thread -> {"idle", "scan", "mark", "all", "clear"}]
  /\ loc \in [Thread -> [pool : Pool, cnt : Nat, i : Nat, j : Nat]]
  /\ held \subseteq [owner : Thread, page : Nat, cnt : Nat \ {0}]
  /\ halted # "assertion"

\* The indices of a loop stay inside the bitmap.
InBitmap(t) ==
  /\ pc[t] = "idle" => loc[t] = NoLoc
  /\ pc[t] # "idle" => loc[t].cnt > 0 /\ loc[t].j <= loc[t].cnt
  /\ pc[t] = "scan" => loc[t].i <= bit_cnt[loc[t].pool]
  /\ pc[t] = "scan" /\ loc[t].j > 0 => loc[t].i + loc[t].cnt <= bit_cnt[loc[t].pool]
  /\ pc[t] \in {"mark", "all", "clear"} => loc[t].i + loc[t].cnt <= bit_cnt[loc[t].pool]
  /\ pc[t] = "clear" => loc[t].j < loc[t].cnt

Bounds == \A t \in Thread : InBitmap(t)

\* Whoever scans or marks has the pool's lock.
Locked == \A t \in Thread : pc[t] \in {"scan", "mark"} => lock[loc[t].pool] = t

\* The bits a call has found clear and has not marked yet.
Found(t) ==
  IF pc[t] = "scan" THEN loc[t].i .. loc[t].i + loc[t].j - 1
  ELSE IF pc[t] = "mark" THEN loc[t].i + loc[t].j .. loc[t].i + loc[t].cnt - 1
  ELSE {}

\* They stay clear: only the holder of the lock sets bits.
FoundClear ==
  \A t \in Thread : \A k \in Found(t) :
    k \in 0 .. bit_cnt[loc[t].pool] - 1 => ~used_map[loc[t].pool][k]

Taken(x) == (\E r \in held : x \in Pages(r)) \/ (\E t \in Thread : x \in Marking(t))

Bits ==
  \A p \in Pool : \A k \in 0 .. bit_cnt[p] - 1 : used_map[p][k] <=> Taken(base[p] + k)

\* No page is held or on its way twice.
Exclusive ==
  /\ \A r, s \in held : r # s => Pages(r) \cap Pages(s) = {}
  /\ \A r \in held, t \in Thread : Pages(r) \cap Marking(t) = {}
  /\ \A t, u \in Thread : t # u => Marking(t) \cap Marking(u) = {}

InPool(r, p) == base[p] <= r.page /\ r.page + r.cnt <= base[p] + bit_cnt[p]

HeldInPool == \A r \in held : \E p \in Pool : InPool(r, p)

IInv == Types /\ Bounds /\ Locked /\ FoundClear /\ Bits /\ Exclusive /\ HeldInPool

-----------------------------------------------------------------------------
(* The pools.                                                              *)

\* The pools lie one behind the other, below FreePages.
LEMMA PoolsApart ==
  /\ \A p \in Pool : base[p] \in Nat /\ bit_cnt[p] \in Nat /\ base[p] + bit_cnt[p] <= FreePages
  /\ base["kernel"] + bit_cnt["kernel"] <= base["user"]
<1>1. UserPages \in Nat /\ FreePages \in Nat /\ BitmapPages \in Nat
  BY PallocAssumption DEF UserPages
<1>2. "kernel" \in Pool /\ "user" \in Pool /\ \A p \in Pool : p = "kernel" \/ p = "user"
  BY DEF Pool
<1>3. KernelPages \in Int /\ KernelPages = FreePages - UserPages
  BY <1>1 DEF KernelPages
<1>4. bit_cnt["kernel"] \in Nat /\ bit_cnt["user"] \in Nat
  BY <1>2, PallocAssumption
<1>5. /\ base["kernel"] = BitmapPages /\ base["user"] = BitmapPages + KernelPages
      /\ bit_cnt["kernel"] = KernelPages - BitmapPages
      /\ bit_cnt["user"] = UserPages - BitmapPages
  BY <1>1, <1>2, <1>3 DEF base, bit_cnt
<1> QED
  BY <1>1, <1>2, <1>3, <1>4, <1>5

\* Two pages of different pools are different.
LEMMA BitOfPage ==
  ASSUME NEW p \in Pool, NEW q \in Pool,
         NEW k \in 0 .. bit_cnt[p] - 1, NEW l \in 0 .. bit_cnt[q] - 1,
         base[p] + k = base[q] + l
  PROVE  p = q /\ k = l
BY PoolsApart DEF Pool

\* What a step leaves of another thread's call.
LEMMA OtherKept ==
  ASSUME NEW u \in Thread, pc'[u] = pc[u], loc'[u] = loc[u]
  PROVE  Marking(u)' = Marking(u) /\ Found(u)' = Found(u)
BY DEF Marking, Found

\* The record of a call stays one when an index of its loops changes.
LEMMA IndexStep ==
  ASSUME NEW r \in [pool : Pool, cnt : Nat, i : Nat, j : Nat], NEW a \in Nat
  PROVE  /\ [r EXCEPT !.j = a] \in [pool : Pool, cnt : Nat, i : Nat, j : Nat]
         /\ [r EXCEPT !.i = a, !.j = 0] \in [pool : Pool, cnt : Nat, i : Nat, j : Nat]
BY Zenon

\* The pages of one call, in terms of its bits.
LEMMA MarkingBits ==
  ASSUME Types, NEW t \in Thread
  PROVE  /\ loc[t].pool \in Pool /\ loc[t].cnt \in Nat /\ loc[t].i \in Nat /\ loc[t].j \in Nat
         /\ base[loc[t].pool] \in Nat /\ bit_cnt[loc[t].pool] \in Nat
BY PoolsApart DEF Types

-----------------------------------------------------------------------------
(* palloc_get_multiple () and the scan change no bit and no owner.         *)

\* palloc_get_multiple () only takes the pool's lock.
LEMMA GetKeeps ==
  ASSUME IInv, NEW t \in Thread, palloc_get_multiple(t)
  PROVE  IInv'
<1> USE DEF IInv
<1>1. PICK p \in Pool, n \in PageCnt :
        /\ lock[p] = None
        /\ lock' = [lock EXCEPT ![p] = t]
        /\ loc' = [loc EXCEPT ![t] = [NoLoc EXCEPT !.pool = p, !.cnt = n]]
  BY Zenon DEF palloc_get_multiple
<1>2. /\ pc[t] = "idle" /\ pc' = [pc EXCEPT ![t] = "scan"]
      /\ used_map' = used_map /\ held' = held /\ halted' = halted
  BY DEF palloc_get_multiple, Goto
<1>3. n \in Nat /\ n > 0
  BY PallocAssumption
<1>4. loc'[t] = [pool |-> p, cnt |-> n, i |-> 0, j |-> 0] /\ pc'[t] = "scan"
  BY <1>1, <1>2, Zenon DEF Types, NoLoc
<1>5. \A u \in Thread \ {t} : pc'[u] = pc[u] /\ loc'[u] = loc[u]
  BY <1>1, <1>2 DEF Types
<1>6. Types'
  <2>1. loc' \in [Thread -> [pool : Pool, cnt : Nat, i : Nat, j : Nat]]
    BY <1>1, <1>3, Zenon DEF Types, NoLoc
  <2> QED
    BY <1>1, <1>2, <2>1 DEF Types
<1>7. Bounds'
  <2>1. InBitmap(t)'
    BY <1>3, <1>4, PoolsApart DEF InBitmap
  <2> QED
    BY <1>5, <2>1 DEF Bounds, InBitmap
<1>8. Locked'
  <2>1. \A u \in Thread \ {t} : pc[u] \in {"scan", "mark"} => loc[u].pool # p
    BY <1>1, PallocAssumption DEF Locked
  <2> QED
    BY <1>1, <1>4, <1>5, <2>1, MarkingBits DEF Locked, Types
<1>9. Marking(t)' = {} /\ Marking(t) = {} /\ Found(t)' = {}
  BY <1>2, <1>4 DEF Marking, Found
<1>10. \A u \in Thread : Marking(u)' = Marking(u)
  BY <1>5, <1>9, OtherKept
<1>11. FoundClear'
  BY <1>2, <1>5, <1>9, OtherKept DEF FoundClear
<1>12. Bits' /\ Exclusive' /\ HeldInPool'
  BY <1>2, <1>10 DEF Bits, Taken, Exclusive, HeldInPool, InPool, Pages
<1> QED
  BY <1>6, <1>7, <1>8, <1>11, <1>12

\* bitmap_scan (), a bit at a time, reads only.
LEMMA ScanKeeps ==
  ASSUME IInv, NEW t \in Thread, bitmap_scan(t)
  PROVE  IInv'
<1> DEFINE l == loc[t]
           p == loc[t].pool
<1> USE DEF IInv
<1>1. /\ pc[t] = "scan" /\ used_map' = used_map /\ held' = held
      /\ halted' = halted \/ halted' # "assertion"
  BY DEF bitmap_scan
<1>2. \A u \in Thread \ {t} : pc'[u] = pc[u] /\ loc'[u] = loc[u]
  BY DEF bitmap_scan, Return, Goto, Types
<1>3. /\ p \in Pool /\ l.cnt \in Nat /\ l.i \in Nat /\ l.j \in Nat /\ bit_cnt[p] \in Nat
      /\ l.cnt > 0 /\ l.j <= l.cnt /\ l.i <= bit_cnt[p]
      /\ l.j > 0 => l.i + l.cnt <= bit_cnt[p]
  BY <1>1, MarkingBits DEF Bounds, InBitmap
<1>4. lock[p] = t /\ \A u \in Thread \ {t} : pc[u] \in {"scan", "mark"} => loc[u].pool # p
  BY <1>1 DEF Locked
<1>5. \A k \in l.i .. l.i + l.j - 1 : k \in 0 .. bit_cnt[p] - 1 => ~used_map[p][k]
  BY <1>1 DEF FoundClear, Found
<1>6. /\ InBitmap(t)' /\ Marking(t)' = {} /\ DOMAIN lock' = DOMAIN lock
      /\ pc' \in [Thread -> {"idle", "scan", "mark", "all", "clear"}]
      /\ loc' \in [Thread -> [pool : Pool, cnt : Nat, i : Nat, j : Nat]]
      /\ lock' \in [Pool -> Thread \cup {None}]
      /\ \A q \in Pool \ {p} : lock'[q] = lock[q]
      /\ pc'[t] \in {"scan", "mark"} => lock' = lock /\ loc'[t].pool = p
      /\ \A k \in Found(t)' : k \in 0 .. bit_cnt[p] - 1 => ~used_map[p][k]
  <2>1. CASE /\ pc' = [pc EXCEPT ![t] = "idle"] /\ loc' = [loc EXCEPT ![t] = NoLoc]
             /\ lock' = [lock EXCEPT ![p] = None]
    <3>1. pc'[t] = "idle" /\ loc'[t] = NoLoc
      BY <2>1 DEF Types
    <3>2. loc' \in [Thread -> [pool : Pool, cnt : Nat, i : Nat, j : Nat]]
      BY <2>1 DEF Types, NoLoc, Pool
    <3> QED
      BY <1>3, <2>1, <3>1, <3>2 DEF Types, InBitmap, Marking, Found
  <2>2. CASE /\ l.i <= bit_cnt[p] - l.cnt /\ l.j = l.cnt
             /\ lock' = lock /\ pc' = [pc EXCEPT ![t] = "mark"] /\ loc' = [loc EXCEPT ![t].j = 0]
    <3>1. /\ pc'[t] = "mark" /\ loc'[t].pool = p /\ loc'[t].cnt = l.cnt
          /\ loc'[t].i = l.i /\ loc'[t].j = 0
      BY <2>2 DEF Types
    <3>2. loc' \in [Thread -> [pool : Pool, cnt : Nat, i : Nat, j : Nat]]
      BY <2>2, Zenon DEF Types
    <3>3. InBitmap(t)'
      BY <1>3, <2>2, <3>1 DEF InBitmap
    <3>4. Marking(t)' = {} /\ Found(t)' = l.i .. l.i + l.j - 1
      BY <1>3, <2>2, <3>1, PoolsApart DEF Marking, Found
    <3> QED
      BY <1>5, <2>2, <3>1, <3>2, <3>3, <3>4 DEF Types
  <2>3. CASE /\ l.i <= bit_cnt[p] - l.cnt /\ lock' = lock /\ pc' = pc
             /\ loc' = [loc EXCEPT ![t].i = @ + 1, ![t].j = 0]
    <3>1. /\ pc'[t] = "scan" /\ loc'[t].pool = p /\ loc'[t].cnt = l.cnt
          /\ loc'[t].i = l.i + 1 /\ loc'[t].j = 0
      BY <1>1, <2>3 DEF Types
    <3>2. loc' \in [Thread -> [pool : Pool, cnt : Nat, i : Nat, j : Nat]]
      <4>1. loc' = [loc EXCEPT ![t] = [loc[t] EXCEPT !.i = loc[t].i + 1, !.j = 0]]
        BY <2>3, Zenon DEF Types
      <4>2. [loc[t] EXCEPT !.i = loc[t].i + 1, !.j = 0]
              \in [pool : Pool, cnt : Nat, i : Nat, j : Nat]
        BY <1>3, loc[t].j + 1 \in Nat, loc[t].i + 1 \in Nat, IndexStep, Zenon DEF Types
      <4> QED
        BY <4>1, <4>2 DEF Types
    <3>3. InBitmap(t)'
      BY <1>3, <2>3, <3>1 DEF InBitmap
    <3>4. Marking(t)' = {} /\ Found(t)' = {}
      BY <1>3, <2>3, <3>1 DEF Marking, Found
    <3> QED
      BY <2>3, <3>1, <3>2, <3>3, <3>4 DEF Types
  <2>4. CASE /\ l.i <= bit_cnt[p] - l.cnt /\ l.j # l.cnt /\ ~used_map[p][l.i + l.j]
             /\ lock' = lock /\ pc' = pc /\ loc' = [loc EXCEPT ![t].j = @ + 1]
    <3>1. /\ pc'[t] = "scan" /\ loc'[t].pool = p /\ loc'[t].cnt = l.cnt
          /\ loc'[t].i = l.i /\ loc'[t].j = l.j + 1
      BY <1>1, <2>4 DEF Types
    <3>2. loc' \in [Thread -> [pool : Pool, cnt : Nat, i : Nat, j : Nat]]
      <4>1. loc' = [loc EXCEPT ![t] = [loc[t] EXCEPT !.j = loc[t].j + 1]]
        BY <2>4
      <4>2. [loc[t] EXCEPT !.j = loc[t].j + 1] \in [pool : Pool, cnt : Nat, i : Nat, j : Nat]
        BY <1>3, loc[t].j + 1 \in Nat, loc[t].i + 1 \in Nat, IndexStep, Zenon DEF Types
      <4> QED
        BY <4>1, <4>2 DEF Types
    <3>3. InBitmap(t)'
      BY <1>3, <2>4, <3>1 DEF InBitmap
    <3>4. Marking(t)' = {} /\ Found(t)' = l.i .. l.i + l.j
      BY <1>3, <3>1 DEF Marking, Found
    <3>5. \A k \in l.i .. l.i + l.j : k = l.i + l.j \/ k \in l.i .. l.i + l.j - 1
      BY <1>3
    <3> QED
      BY <1>5, <2>4, <3>1, <3>2, <3>3, <3>4, <3>5 DEF Types
  <2> QED
    BY <2>1, <2>2, <2>3, <2>4, Zenon DEF bitmap_scan, Return, Goto
<1>7. Types'
  BY <1>1, <1>6 DEF Types
<1>8. Bounds'
  BY <1>2, <1>6 DEF Bounds, InBitmap
<1>9. Locked'
  BY <1>2, <1>4, <1>6, MarkingBits DEF Locked
<1>10. FoundClear'
  BY <1>1, <1>2, <1>6, OtherKept, Zenon DEF FoundClear, Found
<1>11. \A u \in Thread : Marking(u)' = Marking(u)
  BY <1>1, <1>2, <1>6, OtherKept, Zenon DEF Marking
<1>12. Bits' /\ Exclusive' /\ HeldInPool'
  BY <1>1, <1>11 DEF Bits, Taken, Exclusive, HeldInPool, InPool, Pages
<1> QED
  BY <1>7, <1>8, <1>9, <1>10, <1>12

-----------------------------------------------------------------------------
(* Marking and clearing a bit.                                             *)

\* One bit of one pool is set.
LEMMA BitMarked ==
  ASSUME Types, NEW p \in Pool, NEW b \in 0 .. bit_cnt[p] - 1,
         used_map' = [used_map EXCEPT ![p][b] = TRUE]
  PROVE  /\ DOMAIN used_map' = Pool
         /\ \A q \in Pool : used_map'[q] \in [0 .. bit_cnt[q] - 1 -> BOOLEAN]
         /\ \A q \in Pool : \A k \in 0 .. bit_cnt[q] - 1 :
              used_map'[q][k] <=> used_map[q][k] \/ base[q] + k = base[p] + b
<1>1. \A q \in Pool \ {p} : used_map'[q] = used_map[q]
  BY DEF Types
<1>2. used_map'[p] = [used_map[p] EXCEPT ![b] = TRUE]
  BY DEF Types
<1>3. used_map'[p] \in [0 .. bit_cnt[p] - 1 -> BOOLEAN]
  BY <1>2 DEF Types
<1>4. ASSUME NEW q \in Pool, NEW k \in 0 .. bit_cnt[q] - 1
      PROVE  used_map'[q][k] <=> used_map[q][k] \/ base[q] + k = base[p] + b
  <2>1. base[q] + k = base[p] + b <=> q = p /\ k = b
    BY BitOfPage
  <2>2. CASE q = p
    BY <1>2, <2>1, <2>2, Zenon DEF Types
  <2>3. CASE q # p
    BY <1>1, <2>1, <2>3
  <2> QED
    BY <2>2, <2>3
<1> QED
  BY <1>1, <1>3, <1>4 DEF Types

\* One bit of one pool is cleared.
LEMMA BitCleared ==
  ASSUME Types, NEW p \in Pool, NEW b \in 0 .. bit_cnt[p] - 1,
         used_map' = [used_map EXCEPT ![p][b] = FALSE]
  PROVE  /\ DOMAIN used_map' = Pool
         /\ \A q \in Pool : used_map'[q] \in [0 .. bit_cnt[q] - 1 -> BOOLEAN]
         /\ \A q \in Pool : \A k \in 0 .. bit_cnt[q] - 1 :
              used_map'[q][k] <=> used_map[q][k] /\ base[q] + k # base[p] + b
<1>1. \A q \in Pool \ {p} : used_map'[q] = used_map[q]
  BY DEF Types
<1>2. used_map'[p] = [used_map[p] EXCEPT ![b] = FALSE]
  BY DEF Types
<1>3. used_map'[p] \in [0 .. bit_cnt[p] - 1 -> BOOLEAN]
  BY <1>2 DEF Types
<1>4. ASSUME NEW q \in Pool, NEW k \in 0 .. bit_cnt[q] - 1
      PROVE  used_map'[q][k] <=> used_map[q][k] /\ base[q] + k # base[p] + b
  <2>1. base[q] + k = base[p] + b <=> q = p /\ k = b
    BY BitOfPage
  <2>2. CASE q = p
    BY <1>2, <2>1, <2>2, Zenon DEF Types
  <2>3. CASE q # p
    BY <1>1, <2>1, <2>3
  <2> QED
    BY <2>2, <2>3
<1> QED
  BY <1>1, <1>3, <1>4 DEF Types

\* The bit that is marked was clear, so nobody had its page.
LEMMA MarkOne ==
  ASSUME IInv, NEW t \in Thread, pc[t] = "mark", loc[t].j < loc[t].cnt,
         used_map' = [used_map EXCEPT ![loc[t].pool][loc[t].i + loc[t].j] = TRUE],
         loc' = [loc EXCEPT ![t].j = @ + 1],
         UNCHANGED <<lock, pc, held, halted>>
  PROVE  IInv'
<1> DEFINE p == loc[t].pool
           b == loc[t].i + loc[t].j
           x == base[p] + b
<1> USE DEF IInv
<1>1. /\ p \in Pool /\ loc[t].cnt \in Nat /\ loc[t].i \in Nat /\ loc[t].j \in Nat
      /\ base[p] \in Nat /\ bit_cnt[p] \in Nat
      /\ loc[t].i + loc[t].cnt <= bit_cnt[p] /\ loc[t].cnt > 0
  BY MarkingBits DEF Bounds, InBitmap
<1>2. b \in 0 .. bit_cnt[p] - 1
  BY <1>1
<1>3. loc' = [loc EXCEPT ![t] = [loc[t] EXCEPT !.j = loc[t].j + 1]]
  OBVIOUS
<1>4. loc' \in [Thread -> [pool : Pool, cnt : Nat, i : Nat, j : Nat]]
  <2>1. [loc[t] EXCEPT !.j = loc[t].j + 1] \in [pool : Pool, cnt : Nat, i : Nat, j : Nat]
    BY <1>1, loc[t].j + 1 \in Nat, IndexStep, Zenon DEF Types
  <2> QED
    BY <1>3, <2>1 DEF Types
<1>5. /\ \A u \in Thread \ {t} : loc'[u] = loc[u]
      /\ loc'[t].pool = p /\ loc'[t].cnt = loc[t].cnt
      /\ loc'[t].i = loc[t].i /\ loc'[t].j = loc[t].j + 1
  BY <1>3 DEF Types
<1>6. Types'
  BY <1>1, <1>2, <1>4, BitMarked, Zenon DEF Types
<1>7. Bounds'
  <2>1. InBitmap(t)'
    BY <1>1, <1>5 DEF InBitmap
  <2> QED
    BY <1>5, <2>1 DEF Bounds, InBitmap
<1>8. Locked'
  BY <1>5 DEF Locked
<1>9. ~used_map[p][b]
  BY <1>1, <1>2 DEF FoundClear, Found
<1>10. ~Taken(x)
  BY <1>1, <1>2, <1>9 DEF Bits
<1>11. Marking(t)' = Marking(t) \cup {x}
  BY <1>1, <1>5 DEF Marking
<1>12. \A u \in Thread \ {t} : Marking(u)' = Marking(u) /\ Found(u)' = Found(u)
  BY <1>5, OtherKept
<1>13. FoundClear'
  <2>1. ASSUME NEW k \in Found(t)'
        PROVE  k \in Found(t) /\ k # b
    BY <1>1, <1>5 DEF Found
  <2>2. ASSUME NEW u \in Thread \ {t}, NEW k \in Found(u)
        PROVE  loc[u].pool # p
    BY <2>2, pc[u] \in {"scan", "mark"} DEF Locked, Found
  <2>3. ASSUME NEW k \in Found(t)', k \in 0 .. bit_cnt[loc'[t].pool] - 1
        PROVE  ~used_map'[loc'[t].pool][k]
    <3>1. k \in Found(t) /\ k # b /\ k \in 0 .. bit_cnt[p] - 1
      BY <1>5, <2>1, <2>3
    <3>2. ~used_map[p][k]
      BY <3>1, Zenon DEF FoundClear
    <3> QED
      BY <1>1, <1>2, <1>5, <3>1, <3>2 DEF Types
  <2>4. ASSUME NEW u \in Thread \ {t}, NEW k \in Found(u)',
               k \in 0 .. bit_cnt[loc'[u].pool] - 1
        PROVE  ~used_map'[loc'[u].pool][k]
    <3>1. k \in Found(u) /\ loc'[u].pool = loc[u].pool /\ loc[u].pool # p
      BY <1>5, <1>12, <2>2, <2>4
    <3>2. ~used_map[loc[u].pool][k]
      BY <2>4, <3>1, Zenon DEF FoundClear
    <3>3. loc[u].pool \in Pool
      BY MarkingBits
    <3> QED
      BY <1>1, <3>1, <3>2, <3>3 DEF Types
  <2> QED
    BY <2>3, <2>4, Zenon DEF FoundClear
<1>14. Bits'
  <2>1. \A y : Taken(y)' <=> Taken(y) \/ y = x
    BY <1>11, <1>12 DEF Taken, Pages
  <2>3. Types
    OBVIOUS
  <2>4. used_map' = [used_map EXCEPT ![p][b] = TRUE]
    OBVIOUS
  <2>2. \A q \in Pool : \A k \in 0 .. bit_cnt[q] - 1 :
          used_map'[q][k] <=> used_map[q][k] \/ base[q] + k = x
    <3> HIDE DEF IInv, b, p
    <3> QED
      BY <1>1, <1>2, <2>3, <2>4, BitMarked, Zenon
  <2> QED
    BY <2>1, <2>2 DEF Bits
<1>15. Exclusive'
  BY <1>10, <1>11, <1>12 DEF Exclusive, Taken, Pages
<1>16. HeldInPool'
  BY DEF HeldInPool, InPool
<1> QED
  BY <1>6, <1>7, <1>8, <1>13, <1>14, <1>15, <1>16

\* The pages pass from the call to its caller.
LEMMA MarkEnd ==
  ASSUME IInv, NEW t \in Thread, pc[t] = "mark", loc[t].j = loc[t].cnt,
         lock' = [lock EXCEPT ![loc[t].pool] = None],
         held' = held \cup {[owner |-> t, page |-> base[loc[t].pool] + loc[t].i,
                             cnt |-> loc[t].cnt]},
         Return(t), UNCHANGED <<used_map, halted>>
  PROVE  IInv'
<1> DEFINE p == loc[t].pool
           new == [owner |-> t, page |-> base[p] + loc[t].i, cnt |-> loc[t].cnt]
<1> USE DEF IInv
<1>1. /\ p \in Pool /\ loc[t].cnt \in Nat /\ loc[t].i \in Nat /\ loc[t].j \in Nat
      /\ base[p] \in Nat /\ bit_cnt[p] \in Nat
      /\ loc[t].i + loc[t].cnt <= bit_cnt[p] /\ loc[t].cnt > 0
  BY MarkingBits DEF Bounds, InBitmap
<1>2. /\ \A u \in Thread \ {t} : pc'[u] = pc[u] /\ loc'[u] = loc[u]
      /\ pc'[t] = "idle" /\ loc'[t] = NoLoc
  BY DEF Return, Types
<1>3. Types'
  <2>1. loc' \in [Thread -> [pool : Pool, cnt : Nat, i : Nat, j : Nat]]
    BY DEF Types, Return, NoLoc, Pool
  <2>2. new \in [owner : Thread, page : Nat, cnt : Nat \ {0}]
    BY <1>1
  <2> QED
    BY <2>1, <2>2 DEF Types, Return
<1>4. Bounds'
  BY <1>2 DEF Bounds, InBitmap
<1>5. Locked'
  <2>1. \A u \in Thread \ {t} : pc[u] \in {"scan", "mark"} => loc[u].pool # p
    BY DEF Locked
  <2> QED
    BY <1>1, <1>2, <2>1, MarkingBits, Zenon DEF Locked, Types
<1>6. FoundClear'
  <2>1. Found(t)' = {}
    BY <1>2 DEF Found
  <2> QED
    BY <1>2, <2>1, OtherKept DEF FoundClear
<1>7. /\ Marking(t) = Pages(new) /\ Marking(t)' = {}
      /\ \A u \in Thread \ {t} : Marking(u)' = Marking(u)
  <2>1. Marking(t) = Pages(new)
    BY <1>1 DEF Marking, Pages
  <2>2. Marking(t)' = {}
    BY <1>2 DEF Marking
  <2> QED
    BY <1>2, <2>1, <2>2, OtherKept
<1>8. Bits'
  <2>1. ASSUME NEW y PROVE Taken(y)' <=> Taken(y)
    BY <1>7, Zenon DEF Taken, Pages
  <2> QED
    BY <2>1 DEF Bits
<1>9. Exclusive'
  <2>1. Exclusive /\ held' = held \cup {new} /\ \A r : Pages(r)' = Pages(r)
    BY DEF Pages
  <2>2. \A r \in held : Pages(r) \cap Pages(new) = {}
    BY <1>7 DEF Exclusive
  <2>3. \A u \in Thread \ {t} : Pages(new) \cap Marking(u) = {}
    BY <1>7 DEF Exclusive
  <2> HIDE DEF new, IInv
  <2>4. \A r, s \in held' : r # s => Pages(r) \cap Pages(s) = {}
    BY <2>1, <2>2 DEF Exclusive
  <2>5. \A r \in held', u \in Thread : Pages(r) \cap Marking(u)' = {}
    BY <1>7, <2>1, <2>3 DEF Exclusive
  <2>6. \A u, v \in Thread : u # v => Marking(u)' \cap Marking(v)' = {}
    BY <1>7, <2>1 DEF Exclusive
  <2> QED
    BY <2>1, <2>4, <2>5, <2>6 DEF Exclusive
<1>10. HeldInPool'
  <2>1. InPool(new, p)
    BY <1>1 DEF InPool
  <2> QED
    BY <1>1, <2>1 DEF HeldInPool, InPool
<1> QED
  BY <1>3, <1>4, <1>5, <1>6, <1>8, <1>9, <1>10

\* bitmap_set_multiple (.., true), a bit at a time: the page marked was free and is
\* no one else's; after the last one the run of pages is handed out.
LEMMA MarkKeeps ==
  ASSUME IInv, NEW t \in Thread, bitmap_mark(t)
  PROVE  IInv'
BY MarkOne, MarkEnd, Zenon DEF bitmap_mark

\* The pages pass from the caller to the call, and are from one of the pools.
LEMMA FreeKeeps ==
  ASSUME IInv, NEW t \in Thread, palloc_free_multiple(t)
  PROVE  IInv'
<1> USE DEF IInv
<1>1. PICK r \in held :
        /\ held' = held \ {r}
        /\ \/ \E p \in Pool :
                /\ page_from_pool(p, r.page)
                /\ loc' = [loc EXCEPT ![t] = [pool |-> p, cnt |-> r.cnt, i |-> r.page - base[p], j |-> 0]]
                /\ Goto(t, "all")
                /\ UNCHANGED halted
           \/ \A p \in Pool : ~page_from_pool(p, r.page)
  BY DEF palloc_free_multiple
<1>2. pc[t] = "idle" /\ used_map' = used_map /\ lock' = lock
  BY DEF palloc_free_multiple
<1>3. r.page \in Nat /\ r.cnt \in Nat /\ r.cnt > 0
  BY DEF Types
<1>4. PICK q \in Pool : InPool(r, q)
  BY DEF HeldInPool
<1>5. page_from_pool(q, r.page) /\ \A p \in Pool : page_from_pool(p, r.page) => p = q
  BY <1>3, <1>4, PoolsApart DEF page_from_pool, InPool, Pool
<1>6. PICK p \in Pool :
        /\ page_from_pool(p, r.page)
        /\ loc' = [loc EXCEPT ![t] = [pool |-> p, cnt |-> r.cnt, i |-> r.page - base[p], j |-> 0]]
        /\ Goto(t, "all")
        /\ UNCHANGED halted
  BY <1>1, <1>5
<1> DEFINE idx == r.page - base[p]
<1> DEFINE call == [pool |-> p, cnt |-> r.cnt, i |-> idx, j |-> 0]
<1>7. /\ held' = held \ {r} /\ halted' = halted
      /\ loc' = [loc EXCEPT ![t] = call] /\ pc' = [pc EXCEPT ![t] = "all"]
  BY <1>1, <1>6 DEF Goto
<1>8. /\ base[p] \in Nat /\ bit_cnt[p] \in Nat /\ idx \in Nat
       /\ idx + r.cnt <= bit_cnt[p] /\ base[p] + idx = r.page
  BY <1>3, <1>4, <1>5, <1>6, PoolsApart DEF InPool
<1>9. call \in [pool : Pool, cnt : Nat, i : Nat, j : Nat]
  BY <1>3, <1>8
<1> HIDE DEF idx
<1>10. /\ \A u \in Thread \ {t} : pc'[u] = pc[u] /\ loc'[u] = loc[u]
      /\ pc'[t] = "all" /\ loc'[t] = call
  BY <1>7 DEF Types
<1>11. Types'
  BY <1>2, <1>7, <1>9, Zenon DEF Types
<1>12. Bounds'
  <2>1. InBitmap(t)'
    BY <1>3, <1>8, <1>10 DEF InBitmap
  <2> QED
    BY <1>10, <2>1 DEF Bounds, InBitmap
<1>13. Locked'
  BY <1>2, <1>10 DEF Locked
<1>14. FoundClear'
  <2>1. Found(t)' = {}
    BY <1>10 DEF Found
  <2> QED
    BY <1>2, <1>10, <2>1, OtherKept DEF FoundClear
<1>15. /\ Marking(t)' = Pages(r) /\ Marking(t) = {}
       /\ \A u \in Thread \ {t} : Marking(u)' = Marking(u)
       /\ \A s : Pages(s)' = Pages(s)
  <2>1. Marking(t)' = Pages(r)
    BY <1>3, <1>8, <1>10 DEF Marking, Pages
  <2>2. Marking(t) = {}
    BY <1>2 DEF Marking
  <2> QED
    BY <1>10, <2>1, <2>2, OtherKept DEF Pages
<1>16. Bits'
  <2>1. ASSUME NEW y PROVE Taken(y)' <=> Taken(y)
    BY <1>7, <1>15 DEF Taken
  <2> QED
    BY <1>2, <2>1 DEF Bits
<1>17. Exclusive'
  BY <1>7, <1>15 DEF Exclusive
<1>18. HeldInPool'
  BY <1>7 DEF HeldInPool, InPool
<1> QED
  BY <1>11, <1>12, <1>13, <1>14, <1>16, <1>17, <1>18

\* bitmap_all () reads the bits of the caller's own pages, and finds them set.
LEMMA AllKeeps ==
  ASSUME IInv, NEW t \in Thread, bitmap_all(t)
  PROVE  IInv'
<1> DEFINE p == loc[t].pool
           l == loc[t]
<1> USE DEF IInv
<1>1. pc[t] = "all" /\ used_map' = used_map /\ held' = held /\ lock' = lock
  BY DEF bitmap_all
<1>2. \A u \in Thread \ {t} : pc'[u] = pc[u] /\ loc'[u] = loc[u]
  BY DEF bitmap_all, Goto, Types
<1>3. /\ p \in Pool /\ l.cnt \in Nat /\ l.i \in Nat /\ l.j \in Nat
      /\ base[p] \in Nat /\ bit_cnt[p] \in Nat
      /\ l.cnt > 0 /\ l.j <= l.cnt /\ l.i + l.cnt <= bit_cnt[p]
  BY <1>1, MarkingBits DEF Bounds, InBitmap
<1>4. l.j < l.cnt => used_map[p][l.i + l.j]
  <2> SUFFICES ASSUME l.j < l.cnt
               PROVE  used_map[p][l.i + l.j]
    OBVIOUS
  <2>1. l.i + l.j \in 0 .. bit_cnt[p] - 1 /\ base[p] + (l.i + l.j) \in Marking(t)
    BY <1>1, <1>3 DEF Marking
  <2> QED
    BY <1>3, <2>1 DEF Bits, Taken
<1>5. \E a \in Nat :
        /\ loc' = [loc EXCEPT ![t] = [loc[t] EXCEPT !.j = a]]
        /\ halted' = halted
        /\ \/ a <= l.cnt /\ pc' = pc
           \/ a = 0 /\ pc' = [pc EXCEPT ![t] = "clear"]
  <2>1. CASE l.j = l.cnt
    BY <1>3, <2>1 DEF bitmap_all, Goto
  <2>2. CASE l.j < l.cnt
    <3>1. l.j + 1 \in Nat /\ l.j + 1 <= l.cnt
      BY <1>3, <2>2
    <3> QED
      BY <1>3, <1>4, <2>2, <3>1 DEF bitmap_all
  <2> QED
    BY <1>3, <2>1, <2>2
<1>6. PICK a \in Nat :
        /\ loc' = [loc EXCEPT ![t] = [loc[t] EXCEPT !.j = a]]
        /\ halted' = halted
        /\ \/ a <= l.cnt /\ pc' = pc
           \/ a = 0 /\ pc' = [pc EXCEPT ![t] = "clear"]
  BY <1>5
<1>7. /\ loc'[t].pool = p /\ loc'[t].cnt = l.cnt /\ loc'[t].i = l.i /\ loc'[t].j = a
      /\ (pc'[t] = "all" /\ a <= l.cnt) \/ (pc'[t] = "clear" /\ a = 0)
  BY <1>1, <1>6 DEF Types
<1>8. Types'
  <2>1. [loc[t] EXCEPT !.j = a] \in [pool : Pool, cnt : Nat, i : Nat, j : Nat]
    BY IndexStep, Zenon DEF Types
  <2>2. loc' \in [Thread -> [pool : Pool, cnt : Nat, i : Nat, j : Nat]]
    BY <1>6, <2>1 DEF Types
  <2> QED
    BY <1>1, <1>6, <2>2 DEF Types
<1>9. Bounds'
  <2>1. InBitmap(t)'
    BY <1>3, <1>7 DEF InBitmap
  <2> QED
    BY <1>2, <2>1 DEF Bounds, InBitmap
<1>10. Locked'
  BY <1>1, <1>2, <1>7 DEF Locked
<1>11. Marking(t)' = Marking(t) /\ Found(t)' = {}
  BY <1>1, <1>3, <1>7 DEF Marking, Found
<1>12. FoundClear'
  BY <1>1, <1>2, <1>11, OtherKept DEF FoundClear
<1>13. \A u \in Thread : Marking(u)' = Marking(u)
  BY <1>2, <1>11, OtherKept
<1>14. Bits' /\ Exclusive' /\ HeldInPool'
  BY <1>1, <1>13 DEF Bits, Taken, Exclusive, HeldInPool, InPool, Pages
<1> QED
  BY <1>8, <1>9, <1>10, <1>12, <1>14

\* The bit that is cleared belongs to this call alone.
LEMMA ResetKeeps ==
  ASSUME IInv, NEW t \in Thread, bitmap_reset(t)
  PROVE  IInv'
<1> DEFINE p == loc[t].pool
           b == loc[t].i + loc[t].j
           x == base[p] + b
<1> USE DEF IInv
<1>1. /\ pc[t] = "clear" /\ lock' = lock /\ held' = held /\ halted' = halted
      /\ used_map' = [used_map EXCEPT ![p][b] = FALSE]
  BY DEF bitmap_reset
<1>2. /\ p \in Pool /\ loc[t].cnt \in Nat /\ loc[t].i \in Nat /\ loc[t].j \in Nat
      /\ base[p] \in Nat /\ bit_cnt[p] \in Nat
      /\ loc[t].i + loc[t].cnt <= bit_cnt[p] /\ loc[t].j < loc[t].cnt
  BY <1>1, MarkingBits DEF Bounds, InBitmap
<1>3. b \in 0 .. bit_cnt[p] - 1
  BY <1>2
<1>4. /\ \A u \in Thread \ {t} : pc'[u] = pc[u] /\ loc'[u] = loc[u]
      /\ pc' \in [Thread -> {"idle", "scan", "mark", "all", "clear"}]
      /\ loc' \in [Thread -> [pool : Pool, cnt : Nat, i : Nat, j : Nat]]
      /\ InBitmap(t)' /\ pc'[t] \in {"idle", "clear"}
      /\ Marking(t)' = Marking(t) \ {x} /\ x \in Marking(t)
  <2>1. Marking(t) = x .. base[p] + loc[t].i + loc[t].cnt - 1 /\ x \in Marking(t)
    <3>1. Marking(t) = base[p] + loc[t].i + loc[t].j .. base[p] + loc[t].i + loc[t].cnt - 1
      BY <1>1 DEF Marking
    <3>2. x = base[p] + loc[t].i + loc[t].j
      BY <1>2
    <3>3. /\ x \in Nat /\ x <= base[p] + loc[t].i + loc[t].cnt - 1
          /\ base[p] + loc[t].i + loc[t].cnt - 1 \in Int
      BY <1>2
    <3>4. Marking(t) = x .. base[p] + loc[t].i + loc[t].cnt - 1
      BY <3>1, <3>2
    <3> HIDE DEF x
    <3> QED
      BY <3>3, <3>4
  <2>2. CASE loc[t].j + 1 = loc[t].cnt
    <3>1. pc' = [pc EXCEPT ![t] = "idle"] /\ loc' = [loc EXCEPT ![t] = NoLoc]
      BY <2>2 DEF bitmap_reset, Return
    <3>2. pc'[t] = "idle" /\ loc'[t] = NoLoc
      BY <3>1 DEF Types
    <3>3. loc' \in [Thread -> [pool : Pool, cnt : Nat, i : Nat, j : Nat]]
      BY <3>1 DEF Types, NoLoc, Pool
    <3>4. Marking(t)' = {} /\ InBitmap(t)'
      BY <3>2 DEF Marking, InBitmap
    <3>5. Marking(t) = {x}
      <4>1. base[p] + loc[t].i + loc[t].cnt - 1 = x /\ x \in Nat
        BY <1>2, <2>2
      <4> QED
        BY <2>1, <4>1
    <3> QED
      BY <2>1, <3>1, <3>2, <3>3, <3>4, <3>5 DEF Types
  <2>3. CASE loc[t].j + 1 # loc[t].cnt
    <3>1. pc' = pc /\ loc' = [loc EXCEPT ![t] = [loc[t] EXCEPT !.j = loc[t].j + 1]]
      BY <2>3 DEF bitmap_reset
    <3>2. [loc[t] EXCEPT !.j = loc[t].j + 1] \in [pool : Pool, cnt : Nat, i : Nat, j : Nat]
      BY <1>2, loc[t].j + 1 \in Nat, IndexStep, Zenon DEF Types
    <3>3. loc' \in [Thread -> [pool : Pool, cnt : Nat, i : Nat, j : Nat]]
      BY <3>1, <3>2 DEF Types
    <3>4. /\ pc'[t] = "clear" /\ loc'[t].pool = p /\ loc'[t].cnt = loc[t].cnt
          /\ loc'[t].i = loc[t].i /\ loc'[t].j = loc[t].j + 1
      BY <1>1, <3>1 DEF Types
    <3>5. InBitmap(t)'
      BY <1>2, <2>3, <3>4 DEF InBitmap
    <3>6. Marking(t)' = x + 1 .. base[p] + loc[t].i + loc[t].cnt - 1
      <4>1. Marking(t)' = base[p] + loc[t].i + (loc[t].j + 1)
                            .. base[p] + loc[t].i + loc[t].cnt - 1
        BY <3>4 DEF Marking
      <4>2. x + 1 = base[p] + loc[t].i + (loc[t].j + 1)
        BY <1>2
      <4> QED
        BY <4>1, <4>2
    <3>7. Marking(t)' = Marking(t) \ {x}
      <4>1. x \in Int /\ base[p] + loc[t].i + loc[t].cnt - 1 \in Int
        BY <1>2
      <4>2. PICK lo \in Int, hi \in Int : lo = x /\ hi = base[p] + loc[t].i + loc[t].cnt - 1
        BY <4>1, Zenon
      <4>3. Marking(t)' = lo + 1 .. hi /\ Marking(t) = lo .. hi
        BY <2>1, <3>6, <4>2, Zenon
      <4>4. lo + 1 .. hi = (lo .. hi) \ {lo}
        OBVIOUS
      <4> QED
        BY <4>2, <4>3, <4>4, Zenon
    <3> QED
      BY <2>1, <3>1, <3>3, <3>4, <3>5, <3>7 DEF Types
  <2> QED
    BY <2>2, <2>3
<1>5. /\ \A u \in Thread \ {t} : Marking(u)' = Marking(u) /\ Found(u)' = Found(u)
      /\ Found(t)' = {} /\ \A r : Pages(r)' = Pages(r)
  BY <1>4, OtherKept, Zenon DEF Found, Pages
<1>6. /\ DOMAIN used_map' = Pool
      /\ \A q \in Pool : used_map'[q] \in [0 .. bit_cnt[q] - 1 -> BOOLEAN]
      /\ \A q \in Pool : \A k \in 0 .. bit_cnt[q] - 1 :
           used_map'[q][k] <=> used_map[q][k] /\ base[q] + k # x
  <2>1. Types
    OBVIOUS
  <2> HIDE DEF IInv, p, b
  <2> QED
    BY <1>1, <1>2, <1>3, <2>1, BitCleared, Zenon
<1>7. Types'
  BY <1>1, <1>4, <1>6 DEF Types
<1>8. Bounds'
  BY <1>4 DEF Bounds, InBitmap
<1>9. Locked'
  BY <1>1, <1>4 DEF Locked
<1>10. FoundClear'
  <2> SUFFICES ASSUME NEW u \in Thread, NEW k \in Found(u)',
                      k \in 0 .. bit_cnt[loc'[u].pool] - 1
               PROVE  ~used_map'[loc'[u].pool][k]
    BY DEF FoundClear
  <2>1. u # t /\ loc'[u] = loc[u] /\ k \in Found(u) /\ loc[u].pool \in Pool
    BY <1>4, <1>5, MarkingBits
  <2> QED
    BY <1>6, <2>1, Zenon DEF FoundClear
<1>11. Bits'
  <2>1. \A y : Taken(y)' <=> Taken(y) /\ y # x
    BY <1>1, <1>4, <1>5 DEF Taken, Exclusive
  <2> QED
    BY <1>6, <2>1 DEF Bits
<1>12. Exclusive'
  BY <1>1, <1>4, <1>5 DEF Exclusive
<1>13. HeldInPool'
  BY <1>1 DEF HeldInPool, InPool
<1> QED
  BY <1>7, <1>8, <1>9, <1>10, <1>11, <1>12, <1>13

-----------------------------------------------------------------------------
(* The theorem.                                                            *)

\* palloc_init () leaves every bit clear and nothing handed out.
LEMMA InvInit == Init => IInv
<1> SUFFICES ASSUME Init PROVE IInv
  OBVIOUS
<1>1. Types
  BY PoolsApart DEF Init, Types, NoLoc, Pool
<1>2. Bounds /\ Locked /\ FoundClear /\ Exclusive /\ HeldInPool
  <2>1. /\ \A t \in Thread : pc[t] = "idle" /\ loc[t] = NoLoc
        /\ held = {}
    BY DEF Init
  <2>2. \A t \in Thread : Found(t) = {} /\ Marking(t) = {}
    BY <2>1 DEF Found, Marking
  <2>3. Bounds /\ Locked
    BY <2>1 DEF Bounds, InBitmap, Locked
  <2>4. FoundClear /\ Exclusive /\ HeldInPool
    BY <2>1, <2>2, Zenon DEF FoundClear, Exclusive, HeldInPool
  <2> QED
    BY <2>3, <2>4
<1>3. Bits
  BY DEF Init, Bits, Taken, Marking
<1> QED
  BY <1>1, <1>2, <1>3 DEF IInv

\* Every step of the allocator keeps the invariant.
LEMMA InvNext == IInv /\ [halted = "no" /\ Next]_vars => IInv'
<1> SUFFICES ASSUME IInv, [halted = "no" /\ Next]_vars PROVE IInv'
  OBVIOUS
<1>1. CASE Next
  BY <1>1, GetKeeps, ScanKeeps, MarkKeeps, FreeKeeps, AllKeeps, ResetKeeps DEF Next
<1>2. CASE UNCHANGED vars
  <2>1. \A t \in Thread : Marking(t)' = Marking(t) /\ Found(t)' = Found(t)
    BY <1>2, OtherKept DEF vars
  <2>2. Types' /\ Bounds' /\ Locked' /\ HeldInPool'
    BY <1>2 DEF vars, IInv, Types, Bounds, InBitmap, Locked, HeldInPool, InPool
  <2>3. FoundClear' /\ Bits' /\ Exclusive'
    BY <1>2, <2>1 DEF vars, IInv, FoundClear, Bits, Taken, Exclusive, Pages
  <2> QED
    BY <2>2, <2>3 DEF IInv
<1> QED
  BY <1>1, <1>2

\* The invariant gives the exactness the runs check.
LEMMA InvImplies == IInv => AllocatorExact
<1> SUFFICES ASSUME IInv PROVE AllocatorExact
  OBVIOUS
<1> USE DEF IInv
<1>1. TypeOK
  <2>1. ASSUME NEW t \in Thread
        PROVE  loc[t].i \in 0 .. FreePages /\ loc[t].j \in 0 .. loc[t].cnt
    <3>1. FreePages \in Nat
      BY PallocAssumption
    <3>2. CASE pc[t] = "idle"
      BY <3>1, <3>2 DEF Bounds, InBitmap, NoLoc
    <3>3. CASE pc[t] # "idle"
      <4>1. /\ pc[t] \in {"scan", "mark", "all", "clear"} /\ InBitmap(t)
        BY <3>3 DEF Bounds, Types
      <4>2. loc[t].i <= bit_cnt[loc[t].pool] /\ loc[t].j <= loc[t].cnt
        BY <4>1, MarkingBits DEF InBitmap
      <4>3. base[loc[t].pool] + bit_cnt[loc[t].pool] <= FreePages
        BY MarkingBits, PoolsApart
      <4> QED
        BY <3>1, <4>2, <4>3, MarkingBits
    <3> QED
      BY <3>2, <3>3
  <2>2. ASSUME NEW r \in held PROVE r.page \in 0 .. FreePages - 1
    <3>1. r.page \in Nat /\ r.cnt \in Nat /\ r.cnt > 0 /\ FreePages \in Nat
      BY PallocAssumption DEF Types
    <3>2. PICK p \in Pool : InPool(r, p)
      BY DEF HeldInPool
    <3> QED
      BY <3>1, <3>2, PoolsApart DEF InPool
  <2> QED
    BY <2>1, <2>2 DEF TypeOK, Types
<1>2. PagesExclusive
  <2>1. ASSUME NEW r \in held
        PROVE  \E p \in Pool : Pages(r) \subseteq base[p] .. base[p] + bit_cnt[p] - 1
    <3>1. r.page \in Nat /\ r.cnt \in Nat
      BY DEF Types
    <3>2. PICK p \in Pool : InPool(r, p)
      BY DEF HeldInPool
    <3>3. Pages(r) \subseteq base[p] .. base[p] + bit_cnt[p] - 1
      BY <3>1, <3>2, PoolsApart DEF InPool, Pages
    <3> QED
      BY <3>3
  <2> QED
    BY <2>1 DEF PagesExclusive, Exclusive
<1>3. BitsExact
  <2>1. \A x : x \in UNION ({Pages(r) : r \in held} \cup {Marking(t) : t \in Thread})
                 <=> Taken(x)
    BY DEF Taken
  <2> QED
    BY <2>1 DEF BitsExact, Bits, Types
<1> QED
  BY <1>1, <1>2, <1>3 DEF AllocatorExact

\* Although palloc_free_multiple () clears bits without the pool's lock, no page is
\* given to two callers, a bit is set exactly while its page is in use, and the
\* assertions in palloc_free_multiple () hold, for any number of threads and pages.
THEOREM AllocatorAlwaysExact == Spec => []AllocatorExact
<1>1. Spec => []IInv
  BY InvInit, InvNext, PTL DEF Spec
<1> QED
  BY <1>1, InvImplies, PTL
=============================================================================

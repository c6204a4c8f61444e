------------------------------- MODULE Malloc -------------------------------
(***************************************************************************)
(* The kernel's allocator, threads/malloc.c: descriptors with their free   *)
(* lists, arenas, and big blocks of whole pages.                           *)
(*                                                                         *)
(* A descriptor's free list and the counts of its arenas are used under    *)
(* its lock; the calls of several threads interleave everywhere else: a    *)
(* test, an update of a list or a call of the page allocator (Palloc,      *)
(* which gives the first run of free pages or none) is a step.  A block    *)
(* belongs to its owner from the step that takes it off the list to the    *)
(* one that puts it back.  size_t has Width bits.                          *)
(***************************************************************************)
EXTENDS Integers, FiniteSets, Sequences, SequencesExt, FiniteSetsExt

CONSTANTS
  Thread, None,
  Width, PGSIZE,
  MinBlock,      \* the smallest block size, 16 in malloc_init ()
  ArenaSize,     \* sizeof (struct arena)
  PageCount,     \* pages of the kernel pool
  Size,          \* sizes asked for
  Factor,        \* arguments of calloc ()
  MaxLive        \* bound: blocks in use, and calls

MallocAssumption ==
  /\ {PGSIZE, MinBlock, ArenaSize, PageCount} \subseteq Nat \ {0}
  /\ ArenaSize + MinBlock <= PGSIZE
  /\ Size \cup Factor \subseteq 0 .. 2 ^ Width - 1

VARIABLES
  heap,       \* arena: the arena that starts in a page, with desc and free_cnt;
              \* used: pages taken from the page allocator;
              \* free_list: of each descriptor, blocks <<page, offset>>
  live,       \* blocks in use, with the size their owner asked for
  locks,      \* holder of each descriptor's lock
  calls       \* of each thread: pc and locals of its call

vars == <<heap, live, locks, calls>>

M(x) == x % 2 ^ Width
NoArena == [desc |-> -1, free_cnt |-> 0]     \* no ARENA_MAGIC
BIG == 0                \* a->desc is NULL
NULL == <<0, 0>>
NoBlock == [block |-> NULL, size |-> 0]

\* new: the block asked for and obtained; old: the one to free; arena: a page that is
\* being made an arena or given back; copied: what realloc () copied, and the old room.
Idle == [pc |-> "idle", size |-> 0, new |-> NoBlock, old |-> NoBlock, desc |-> BIG,
         arena |-> 0, copied |-> 0, from |-> 0]

Page == 1 .. PageCount

-----------------------------------------------------------------------------
\* malloc_init (): block sizes double up to half a page.
Desc == {MinBlock * 2 ^ k : k \in 0 .. 9} \cap 1 .. ((PGSIZE + 1) \div 2) - 1

blocks_per_arena(d) == (PGSIZE - ArenaSize) \div d

arena_to_block(p, d, idx) == <<p, ArenaSize + idx * d>>

DIV_ROUND_UP(x, y) == M(x + y - 1) \div y

\* block_size (): the room in a block.
block_size(h, b) ==
  LET a == h.arena[b[1]]
  IN  IF a.desc # BIG THEN a.desc ELSE PGSIZE * a.free_cnt - b[2]

\* palloc_get_multiple (): where runs of cnt free pages start.
Runs(h, cnt) == {p \in Page : p + cnt - 1 <= PageCount /\ (p .. p + cnt - 1) \cap h.used = {}}

-----------------------------------------------------------------------------
At(t, pc) == calls[t].pc = pc
Go(t, c, pc) == calls' = [calls EXCEPT ![t] = [c EXCEPT !.pc = pc]]
Panic(t) == Go(t, calls[t], "panic") /\ UNCHANGED <<heap, live, locks>>

\* The call returns: its caller owns the new block.
Return(t, c) ==
  /\ calls' = [calls EXCEPT ![t] = Idle]
  /\ live' = live \cup {o \in {c.new, c.old} : o.block # NULL}

\* malloc () returns: realloc () goes on if it has two blocks.
Obtained(t, c) ==
  IF c.old.block # NULL /\ c.new.block # NULL THEN Go(t, c, "copy") /\ UNCHANGED live
  ELSE Return(t, c)

CanCall(t) == At(t, "idle") /\ Cardinality(live) + Cardinality({u \in Thread : ~At(u, "idle")}) < MaxLive

\* What malloc () is asked for: a size, and the room its caller wants, which is not
\* the size if a product wrapped around.
Ask(size, room) == [Idle EXCEPT !.size = size, !.new = [block |-> NULL, size |-> room]]

malloc(t) ==
  /\ CanCall(t)
  /\ \E size \in Size : Go(t, Ask(size, size), "malloc")
  /\ UNCHANGED <<heap, live, locks>>

\* calloc (), after its test that the product fits.
calloc(t) ==
  /\ CanCall(t)
  /\ \E x, y \in Factor : M(x * y) >= x /\ M(x * y) >= y /\ Go(t, Ask(M(x * y), x * y), "malloc")
  /\ UNCHANGED <<heap, live, locks>>

free(t) ==
  /\ At(t, "idle")
  /\ \E o \in live : Go(t, [Idle EXCEPT !.old = o], "free") /\ live' = live \ {o}
  /\ UNCHANGED <<heap, locks>>

\* realloc () of a block: free () if the new size is 0.
realloc(t) ==
  /\ At(t, "idle")
  /\ \E o \in live, size \in Size :
       /\ Go(t, [Ask(size, size) EXCEPT !.old = o], IF size = 0 THEN "free" ELSE "malloc")
       /\ live' = live \ {o}
  /\ UNCHANGED <<heap, locks>>

\* malloc () looks for a descriptor; a size too big for any gets pages of its own.
find_desc(t) ==
  LET c == calls[t]
      fitting == {d \in Desc : d >= c.size}
      cnt == DIV_ROUND_UP(M(c.size + ArenaSize), PGSIZE)
      p == Min(Runs(heap, cnt))
  IN  /\ At(t, "malloc")
      /\ \/ c.size = 0 /\ Obtained(t, c) /\ UNCHANGED heap
         \/ /\ c.size # 0 /\ fitting # {}
            /\ Go(t, [c EXCEPT !.desc = Min(fitting)], "acquire") /\ UNCHANGED <<heap, live>>
         \/ /\ c.size # 0 /\ fitting = {} /\ (cnt = 0 \/ Runs(heap, cnt) = {})
            /\ Obtained(t, c) /\ UNCHANGED heap
         \/ /\ c.size # 0 /\ fitting = {} /\ cnt # 0 /\ Runs(heap, cnt) # {}
            /\ heap' = [heap EXCEPT !.arena[p] = [desc |-> BIG, free_cnt |-> cnt],
                                    !.used = @ \cup p .. p + cnt - 1]
            /\ Obtained(t, [c EXCEPT !.new.block = <<p, ArenaSize>>])
      /\ UNCHANGED locks

\* lock_acquire (&d->lock), in malloc () and in free ().
lock_acquire(t) ==
  LET c == calls[t]
  IN  /\ c.pc \in {"acquire", "acquire_free"} /\ locks[c.desc] = None
      /\ locks' = [locks EXCEPT ![c.desc] = t]
      /\ Go(t, c, IF At(t, "acquire") THEN "take" ELSE "push")
      /\ UNCHANGED <<heap, live>>

\* The first block of the free list, or a new arena if there is none.
take_block(t) ==
  LET c == calls[t]
      b == Head(heap.free_list[c.desc])
      empty == heap.free_list[c.desc] = <<>>
  IN  /\ At(t, "take")
      /\ \/ empty /\ Go(t, c, "arena") /\ UNCHANGED <<heap, live, locks>>
         \/ ~empty /\ heap.arena[b[1]] = NoArena /\ Panic(t)
         \/ /\ ~empty /\ heap.arena[b[1]] # NoArena
            /\ heap' = [heap EXCEPT !.free_list[c.desc] = Tail(@), !.arena[b[1]].free_cnt = @ - 1]
            /\ Go(t, [c EXCEPT !.new.block = b, !.arena = 0], "release")
            /\ UNCHANGED <<live, locks>>

\* palloc_get_page () for a new arena.
get_arena(t) ==
  LET c == calls[t]
      p == Min(Runs(heap, 1))
  IN  /\ At(t, "arena")
      /\ \/ Runs(heap, 1) = {} /\ Go(t, c, "release") /\ UNCHANGED heap
         \/ /\ Runs(heap, 1) # {}
            /\ heap' = [heap EXCEPT !.used = @ \cup {p}]
            /\ Go(t, [c EXCEPT !.arena = p], "init")
      /\ UNCHANGED <<live, locks>>

\* The arena is initialized and its blocks go on the list.
init_arena(t) ==
  LET d == calls[t].desc
      p == calls[t].arena
  IN  /\ At(t, "init")
      /\ heap' = [heap EXCEPT !.arena[p] = [desc |-> d, free_cnt |-> blocks_per_arena(d)],
           !.free_list[d] = @ \o [i \in 1 .. blocks_per_arena(d) |-> arena_to_block(p, d, i - 1)]]
      /\ Go(t, calls[t], "take")
      /\ UNCHANGED <<live, locks>>

\* lock_release () at the end of malloc () and of free ().
lock_release(t) ==
  LET c == calls[t]
  IN  /\ c.pc \in {"release", "release_free"}
      /\ locks' = [locks EXCEPT ![c.desc] = None]
      /\ IF At(t, "release") THEN Obtained(t, c) ELSE Return(t, c)
      /\ UNCHANGED heap

\* realloc () copies and frees the old block.
copy(t) ==
  LET c == calls[t]
      old_size == block_size(heap, c.old.block)
  IN  /\ At(t, "copy")
      /\ Go(t, [c EXCEPT !.copied = Min({c.size, old_size}), !.from = old_size], "free")
      /\ UNCHANGED <<heap, live, locks>>

\* Changed form, for the mutation runs: free () uses the list without the lock.
free_block_unlocked(t) ==
  LET c == calls[t]
      p == c.old.block[1]
      a == heap.arena[p]
  IN  /\ At(t, "free")
      /\ \/ a = NoArena /\ Panic(t)
         \/ /\ a.desc \in Desc /\ Go(t, [c EXCEPT !.desc = a.desc], "push")
            /\ UNCHANGED <<heap, live, locks>>
         \/ /\ a # NoArena /\ a.desc = BIG
            /\ heap' = [heap EXCEPT !.arena[p] = NoArena, !.used = @ \ (p .. p + a.free_cnt - 1)]
            /\ Return(t, [c EXCEPT !.old = NoBlock]) /\ UNCHANGED locks

\* free (): the pages of a big block are given back; for others the lock comes first.
free_block(t) ==
  LET c == calls[t]
      p == c.old.block[1]
      a == heap.arena[p]
  IN  /\ At(t, "free")
      /\ \/ a = NoArena /\ Panic(t)
         \/ /\ a.desc \in Desc /\ Go(t, [c EXCEPT !.desc = a.desc], "acquire_free")
            /\ UNCHANGED <<heap, live, locks>>
         \/ /\ a # NoArena /\ a.desc = BIG
            /\ heap' = [heap EXCEPT !.arena[p] = NoArena, !.used = @ \ (p .. p + a.free_cnt - 1)]
            /\ Return(t, [c EXCEPT !.old = NoBlock]) /\ UNCHANGED locks

\* The block goes on the list; free_cnt tells whether the arena is unused now.
push_block(t) ==
  LET c == calls[t]
      p == c.old.block[1]
      cnt == heap.arena[p].free_cnt + 1
  IN  /\ At(t, "push")
      /\ \/ cnt > blocks_per_arena(c.desc) /\ Panic(t)
         \/ /\ cnt <= blocks_per_arena(c.desc)
            /\ heap' = [heap EXCEPT !.free_list[c.desc] = <<c.old.block>> \o @, !.arena[p].free_cnt = cnt]
            /\ IF cnt = blocks_per_arena(c.desc)
               THEN Go(t, [c EXCEPT !.old = NoBlock, !.arena = p], "unlist")
               ELSE Go(t, [c EXCEPT !.old = NoBlock], "release_free")
            /\ UNCHANGED <<live, locks>>

\* The blocks of an unused arena leave the list.
unlist_arena(t) ==
  LET c == calls[t]
  IN  /\ At(t, "unlist")
      /\ heap' = [heap EXCEPT !.free_list[c.desc] = SelectSeq(@, LAMBDA b : b[1] # c.arena)]
      /\ Go(t, c, "give_back")
      /\ UNCHANGED <<live, locks>>

\* palloc_free_page (), which overwrites the page.
give_back(t) ==
  LET c == calls[t]
  IN  /\ At(t, "give_back")
      /\ heap' = [heap EXCEPT !.arena[c.arena] = NoArena, !.used = @ \ {c.arena}]
      /\ Go(t, [c EXCEPT !.arena = 0], "release_free")
      /\ UNCHANGED <<live, locks>>

Init ==
  /\ heap = [arena |-> [p \in Page |-> NoArena], used |-> {},
             free_list |-> [d \in Desc |-> <<>>]]
  /\ live = {} /\ locks = [d \in Desc |-> None] /\ calls = [t \in Thread |-> Idle]

Next ==
  \E t \in Thread :
    \/ malloc(t) \/ calloc(t) \/ free(t) \/ realloc(t)
    \/ find_desc(t) \/ lock_acquire(t) \/ take_block(t) \/ get_arena(t) \/ init_arena(t)
    \/ lock_release(t) \/ copy(t) \/ free_block(t) \/ push_block(t) \/ unlist_arena(t) \/ give_back(t)

Spec == Init /\ [][Next]_vars

-----------------------------------------------------------------------------
(* Properties.                                                             *)

\* Blocks in use: the callers' and those that calls have in hand.
Owned ==
  live \cup {o \in UNION {{calls[t].new, calls[t].old} : t \in Thread} : o.block # NULL}

Arenas(d) == {p \in Page : heap.arena[p].desc = d}
BlocksOf(p) ==
  LET d == heap.arena[p].desc
  IN  {arena_to_block(p, d, i) : i \in 0 .. blocks_per_arena(d) - 1}

\* Whether the sums of malloc () are exact for a size.
Fits(size) == size + ArenaSize + PGSIZE - 1 < 2 ^ Width

\* Type invariant.
TypeOK ==
  /\ \A p \in Page : heap.arena[p].desc \in Desc \cup {BIG, -1}
  /\ heap.used \subseteq Page
  /\ locks \in [Desc -> Thread \cup {None}]
  /\ \A o \in Owned : o.block[1] \in Page /\ o.block[2] \in 0 .. PGSIZE - 1

\* While nobody holds a descriptor's lock, every block of its arenas is either in use or
\* on its list, once, and free_cnt counts the free ones; no block is on the list while
\* it is in use, and no assertion of block_to_arena () or free () fails.
BlocksAccounted ==
  /\ \A d \in Desc :
       LET list == heap.free_list[d]
       IN  /\ ToSet(list) \cap {o.block : o \in Owned} = {}
           /\ IsInjective(list)
           /\ locks[d] = None =>
                /\ \A p \in Arenas(d) :
                     LET listed == {b \in ToSet(list) : b[1] = p}
                     IN  /\ Cardinality(listed) = heap.arena[p].free_cnt
                         /\ BlocksOf(p) = listed \cup {o.block : o \in {x \in Owned : x.block[1] = p}}
                         /\ heap.arena[p].free_cnt < blocks_per_arena(d)
                /\ \A b \in ToSet(list) : b[1] \in Arenas(d)
  /\ \A t \in Thread : ~At(t, "panic")

\* Blocks in use do not overlap, each within pages taken for it, and a page is taken
\* only while a block in it is in use or a call turns it into an arena or gives it
\* back: nothing leaks.
Bytes(o) ==
  (o.block[1] - 1) * PGSIZE + o.block[2] .. (o.block[1] - 1) * PGSIZE + o.block[2]
                                              + block_size(heap, o.block) - 1
PagesOf(o) ==
  LET a == heap.arena[o.block[1]]
  IN  IF a.desc = BIG THEN o.block[1] .. o.block[1] + a.free_cnt - 1 ELSE {o.block[1]}
LiveApart ==
  /\ \A o, q \in Owned : o # q => Bytes(o) \cap Bytes(q) = {}
  /\ heap.used = UNION {PagesOf(o) : o \in Owned} \cup ({calls[t].arena : t \in Thread} \ {0})

\* A block has the room its owner asked for, if the sums of malloc () did not wrap.
RoomEnough == \A o \in Owned : Fits(o.size) => block_size(heap, o.block) >= o.size

\* What realloc () copies fits in both blocks, and holds all that the owner had asked
\* for or now asks for.
CopyExact ==
  \A t \in Thread : LET c == calls[t] IN At(t, "free") /\ c.new.block # NULL =>
    /\ c.copied <= c.from
    /\ Fits(c.size) => c.copied <= block_size(heap, c.new.block)
    /\ Fits(c.old.size) => c.copied >= Min({c.old.size, c.size})

\* "Obtains and returns a new block of at least SIZE bytes" (malloc ()); calloc ()
\* returns room for A times B bytes.
BigEnough == \A o \in live : block_size(heap, o.block) >= o.size
=============================================================================

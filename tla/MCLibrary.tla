----------------------------- MODULE MCLibrary -----------------------------
(*****************************************************************************)
(* The allocators and the library routines, checked in one run: a            *)
(* behaviour is one of the component it has chosen at the start, and         *)
(* leaves the state of Palloc as it was unless that is the one. The others   *)
(* do not share state; variables of the same name are one variable here,     *)
(* and those a component does not have hold Unused.                          *)
(*****************************************************************************)
EXTENDS Palloc, Sequences, TLC

CONSTANTS Width, PGSIZE, MinBlock, ArenaSize, PageCount, BlockSize, Factor,
          MaxLive, MIN_BUCKETS, BEST_ELEMS_PER_BUCKET, Lists, Nil, a1, a2, a3,
          a4, MaxCnt, Unused

VARIABLES part,     \* the component of this behaviour
          heap, live, locks, calls, buckets, elem_cnt, ret, iter, mem, result, n, d,
          op, trapped, array, given, sort_pc, i, node, cnt, key, first, last,
          found

\* Six elements, the last two with the keys of the first two; hashes that collide
\* in small tables.
HashElem == 1 .. 6
HashKey == [e \in HashElem |-> IF e > 4 THEN e - 4 ELSE e]
HashValue == <<1, 3, 5, 2>>

\* Elements of a list, two of them equal.
ListElem == {a1, a2, a3, a4}
ListKey == [e \in ListElem |-> CASE e \in {a1, a2} -> 1 [] e = a3 -> 2 [] e = a4 -> 3]

\* Elements of an array.
SortElem == 1 .. 4

M == INSTANCE Malloc WITH Size <- BlockSize
Tab == INSTANCE Hash WITH Elem <- HashElem, NULL <- 0, KeyOf <- HashKey,
  HashOf <- HashValue
L == INSTANCE List WITH Elem <- ListElem, Key <- ListKey
A == INSTANCE Arithmetic WITH H <- 4
S == INSTANCE Sort WITH pc <- sort_pc, Elem <- SortElem, NULL <- Nil

ASSUME M!MallocAssumption /\ Tab!HashAssumption

otherVars == <<heap, live, locks, calls, buckets, elem_cnt, ret, iter, mem, result,
  n, d, op, trapped, array, given, sort_pc, i, node, cnt, key, first, last,
  found>>
LibraryVars == <<part, vars, otherVars>>

LibraryInit ==
  /\ Init
  /\ \/ /\ part = "palloc"
        /\ heap = Unused /\ live = Unused /\ locks = Unused /\ calls = Unused
        /\ buckets = Unused /\ elem_cnt = Unused /\ ret = Unused
        /\ iter = Unused /\ mem = Unused /\ result = Unused /\ n = Unused
        /\ d = Unused /\ op = Unused /\ trapped = Unused /\ array = Unused
        /\ given = Unused /\ sort_pc = Unused /\ i = Unused /\ node = Unused
        /\ cnt = Unused /\ key = Unused /\ first = Unused /\ last = Unused
        /\ found = Unused
     \/ /\ part = "malloc" /\ M!Init
        /\ buckets = Unused /\ elem_cnt = Unused /\ ret = Unused
        /\ iter = Unused /\ mem = Unused /\ result = Unused /\ n = Unused
        /\ d = Unused /\ op = Unused /\ trapped = Unused /\ array = Unused
        /\ given = Unused /\ sort_pc = Unused /\ i = Unused /\ node = Unused
        /\ cnt = Unused /\ key = Unused /\ first = Unused /\ last = Unused
        /\ found = Unused
     \/ /\ part = "hash" /\ Tab!Init
        /\ heap = Unused /\ live = Unused /\ locks = Unused /\ calls = Unused /\ mem = Unused
        /\ result = Unused /\ n = Unused /\ d = Unused /\ op = Unused
        /\ trapped = Unused /\ array = Unused /\ given = Unused
        /\ sort_pc = Unused /\ i = Unused /\ node = Unused /\ cnt = Unused
        /\ key = Unused /\ first = Unused /\ last = Unused /\ found = Unused
     \/ /\ part = "list" /\ L!Init
        /\ heap = Unused /\ live = Unused /\ locks = Unused /\ calls = Unused
        /\ buckets = Unused /\ elem_cnt = Unused /\ ret = Unused
        /\ iter = Unused /\ n = Unused /\ d = Unused /\ op = Unused
        /\ trapped = Unused /\ array = Unused /\ given = Unused
        /\ sort_pc = Unused /\ i = Unused /\ node = Unused /\ cnt = Unused
        /\ key = Unused /\ first = Unused /\ last = Unused /\ found = Unused
     \/ /\ part = "arithmetic" /\ A!Init
        /\ heap = Unused /\ live = Unused /\ locks = Unused /\ calls = Unused
        /\ buckets = Unused /\ elem_cnt = Unused /\ ret = Unused
        /\ iter = Unused /\ mem = Unused /\ array = Unused /\ given = Unused
        /\ sort_pc = Unused /\ i = Unused /\ node = Unused /\ cnt = Unused
        /\ key = Unused /\ first = Unused /\ last = Unused /\ found = Unused
     \/ /\ part = "sort" /\ S!Init
        /\ heap = Unused /\ live = Unused /\ locks = Unused /\ calls = Unused
        /\ buckets = Unused /\ elem_cnt = Unused /\ ret = Unused
        /\ iter = Unused /\ mem = Unused /\ result = Unused /\ n = Unused
        /\ d = Unused /\ op = Unused /\ trapped = Unused

LibraryNext ==
  \/ part = "palloc" /\ halted = "no" /\ Next /\ UNCHANGED <<part, otherVars>>
  \/ halted = "out of pages" /\ UNCHANGED LibraryVars       \* the kernel has stopped
  \/ /\ part = "malloc" /\ M!Next
     /\ UNCHANGED <<part, vars, buckets, elem_cnt, ret, iter, mem, result, n,
                   d, op, trapped, array, given, sort_pc, i, node, cnt, key,
                   first, last, found>>
  \/ /\ part = "hash" /\ Tab!Next
     /\ UNCHANGED <<part, vars, heap, live, locks, calls, mem, result, n, d, op,
                   trapped, array, given, sort_pc, i, node, cnt, key, first,
                   last, found>>
  \/ /\ part = "list" /\ L!Next
     /\ UNCHANGED <<part, vars, heap, live, locks, calls, buckets, elem_cnt, ret,
                   iter, n, d, op, trapped, array, given, sort_pc, i, node,
                   cnt, key, first, last, found>>
  \/ /\ part = "arithmetic" /\ A!Next
     /\ UNCHANGED <<part, vars, heap, live, locks, calls, buckets, elem_cnt, ret,
                   iter, mem, array, given, sort_pc, i, node, cnt, key, first,
                   last, found>>
  \/ /\ part = "sort" /\ S!Next
     /\ UNCHANGED <<part, vars, heap, live, locks, calls, buckets, elem_cnt, ret,
                   iter, mem, result, n, d, op, trapped>>

LibrarySpec == LibraryInit /\ [][LibraryNext]_LibraryVars

-----------------------------------------------------------------------------
(* Properties: those of Palloc, which the behaviours of the others leave in *)
(* its initial state, and those of each of the others in its behaviours.    *)

\* Whatever the order of the steps of several threads' calls: every block of an arena is
\* in use or on its descriptor's free list, once; blocks in use do not overlap and no
\* page is kept without one; a block has the room asked for and realloc () copies what
\* both blocks hold, for sizes that the sums of malloc () do not wrap (malloc.c).
MallocExact ==
  part = "malloc" => /\ M!TypeOK
                     /\ M!BlocksAccounted
                     /\ M!LiveApart
                     /\ M!RoomEnough
                     /\ M!CopyExact

\* Every element of a hash table is once in the bucket find_bucket () looks in, also
\* when rehash () fails, and hash_next () returns each once; the prev and next pointers
\* of a list agree (hash.c, list.c).
ContainersSound ==
  /\ part = "hash" => Tab!TypeOK /\ Tab!ElemsInPlace /\ Tab!IterationComplete
  /\ part = "list" => L!TypeOK /\ L!LinksAgree

\* The hash table implements a set of elements with distinct keys (hash.c).
ImplementsElemSet ==
  /\ part = "hash" => Tab!Abstract!Init
  /\ [][part = "hash" => Tab!Abstract!Next]_(Tab!Abstract!vars)

\* The pointer operations of list.c, list_sort () included, implement those on
\* sequences.
ImplementsSeqLists ==
  /\ part = "list" => L!Abstract!Init
  /\ [][part = "list" => L!Abstract!Next]_(L!Abstract!vars)

\* For every pair of operands quotients, and remainders that fit a word, are exact, and
\* only a zero divisor traps (arithmetic.c); for every array sort () keeps its heap and
\* leaves the array in order, and binary_search () finds what is there (stdlib.c).
ResultsExact ==
  /\ part = "arithmetic" => /\ A!TypeOK /\ A!TrapsOnlyOnZero
                            /\ A!QuotientExact /\ A!WordRemainderExact
  /\ part = "sort" => S!TypeOK /\ S!HeapAndTail /\ S!Sorted /\ S!SearchFinds
=============================================================================

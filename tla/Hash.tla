-------------------------------- MODULE Hash --------------------------------
(***************************************************************************)
(* The hash tables of lib/kernel/hash.c, which hold the supplemental page  *)
(* tables: buckets that are lists, resized after every change when memory  *)
(* for new buckets can be had, and iterators over them.                    *)
(***************************************************************************)
EXTENDS Integers, FiniteSets, Sequences, SequencesExt, Bitwise

CONSTANTS
  Elem, NULL,
  KeyOf,           \* the key of an element: less () compares keys
  HashOf,          \* the hash of a key
  MIN_BUCKETS,     \* 4 in hash_init () and rehash ()
  BEST_ELEMS_PER_BUCKET

HashAssumption ==
  /\ NULL \notin Elem
  /\ HashOf \in [{KeyOf[e] : e \in Elem} -> Nat]
  /\ MIN_BUCKETS \in Nat \ {0} /\ MIN_BUCKETS & (MIN_BUCKETS - 1) = 0
  /\ BEST_ELEMS_PER_BUCKET \in Nat \ {0}

VARIABLES
  buckets,      \* lists of elements, numbered from 0
  elem_cnt,
  ret,          \* what the last call returned
  iter          \* an iterator: bucket, position in it, what it has returned

vars == <<buckets, elem_cnt, ret, iter>>

bucket_cnt == Cardinality(DOMAIN buckets)
NoIter == [bucket |-> 0, pos |-> 0, seen |-> <<>>, state |-> "none"]

-----------------------------------------------------------------------------
\* find_bucket () in a table of cnt buckets.
find_bucket(e, cnt) == HashOf[KeyOf[e]] & (cnt - 1)

\* find_elem (): the first element of the bucket with e's key.
find_elem(e) ==
  LET list == buckets[find_bucket(e, bucket_cnt)]
      equal == {i \in DOMAIN list : KeyOf[list[i]] = KeyOf[e]}
  IN  IF equal = {} THEN NULL ELSE list[CHOOSE i \in equal : \A j \in equal : i <= j]

\* The number of buckets rehash () wants: low-order 1-bits are turned off until a
\* power of 2 is left.
RECURSIVE PowerOf2(_)
PowerOf2(x) == IF x & (x - 1) = 0 THEN x ELSE PowerOf2(x & (x - 1))
BestBucketCnt(n) ==
  LET best == n \div BEST_ELEMS_PER_BUCKET
  IN  PowerOf2(IF best < MIN_BUCKETS THEN MIN_BUCKETS ELSE best)

\* Changed form, for the mutation runs: elements go to the bucket of the old table.
Moved_old(old, cnt) ==
  LET all == FlattenSeq([i \in 1 .. Cardinality(DOMAIN old) |-> old[i - 1]])
  IN  [b \in 0 .. cnt - 1 |-> Reverse(SelectSeq(all, LAMBDA e : find_bucket(e, Cardinality(DOMAIN old)) = b))]

\* Every element of old moved to the front of its bucket, bucket by bucket.
Moved(old, cnt) ==
  LET all == FlattenSeq([i \in 1 .. Cardinality(DOMAIN old) |-> old[i - 1]])
  IN  [b \in 0 .. cnt - 1 |-> Reverse(SelectSeq(all, LAMBDA e : find_bucket(e, cnt) = b))]

\* rehash () of a table with buckets bs and n elements; malloc () may fail.
rehash(bs, n) ==
  \/ buckets' = bs /\ BestBucketCnt(n) = Cardinality(DOMAIN bs)
  \/ buckets' = bs /\ BestBucketCnt(n) # Cardinality(DOMAIN bs)     \* no memory
  \/ /\ BestBucketCnt(n) # Cardinality(DOMAIN bs)
     /\ buckets' = Moved(bs, BestBucketCnt(n))

insert_elem(bs, e) == [bs EXCEPT ![find_bucket(e, bucket_cnt)] = <<e>> \o @]

remove_elem(bs, e) == [b \in DOMAIN bs |-> SelectSeq(bs[b], LAMBDA x : x # e)]

-----------------------------------------------------------------------------
InTable(e) == \E b \in DOMAIN buckets : e \in ToSet(buckets[b])

\* hash_insert () of an element that is in no table.
hash_insert(e) ==
  LET old == find_elem(e)
      n == IF old = NULL THEN elem_cnt + 1 ELSE elem_cnt
  IN  /\ ~InTable(e)
      /\ rehash(IF old = NULL THEN insert_elem(buckets, e) ELSE buckets, n)
      /\ elem_cnt' = n /\ ret' = old /\ iter' = NoIter

\* Changed form, for the mutation runs: the old element stays.
hash_replace_both(e) ==
  LET old == find_elem(e)
      n == IF old = NULL THEN elem_cnt + 1 ELSE elem_cnt
  IN  /\ ~InTable(e)
      /\ rehash(insert_elem(buckets, e), n)
      /\ elem_cnt' = n /\ ret' = old /\ iter' = NoIter

hash_replace(e) ==
  LET old == find_elem(e)
      n == IF old = NULL THEN elem_cnt + 1 ELSE elem_cnt
  IN  /\ ~InTable(e)
      /\ rehash(insert_elem(IF old = NULL THEN buckets ELSE remove_elem(buckets, old), e), n)
      /\ elem_cnt' = n /\ ret' = old /\ iter' = NoIter

hash_find(e) == ret' = find_elem(e) /\ UNCHANGED <<buckets, elem_cnt, iter>>

hash_delete(e) ==
  LET found == find_elem(e)
  IN  /\ ret' = found
      /\ IF found = NULL THEN UNCHANGED <<buckets, elem_cnt, iter>>
         ELSE /\ elem_cnt' = elem_cnt - 1
              /\ rehash(remove_elem(buckets, found), elem_cnt - 1)
              /\ iter' = NoIter

\* hash_clear (): every bucket is emptied, their number stays.
hash_clear ==
  /\ buckets' = [b \in DOMAIN buckets |-> <<>>]
  /\ elem_cnt' = 0 /\ ret' = NULL /\ iter' = NoIter

\* Iteration: hash_first () and hash_next ().  A change of the table ends it.
hash_first ==
  /\ iter.state # "going"
  /\ iter' = [NoIter EXCEPT !.state = "going"]
  /\ UNCHANGED <<buckets, elem_cnt, ret>>

hash_next ==
  LET later == {b \in DOMAIN buckets : b > iter.bucket /\ buckets[b] # <<>>}
      first == CHOOSE b \in later : \A c \in later : b <= c
      to == IF iter.pos < Len(buckets[iter.bucket]) THEN <<iter.bucket, iter.pos + 1>> ELSE <<first, 1>>
  IN  /\ iter.state = "going"
      /\ IF iter.pos = Len(buckets[iter.bucket]) /\ later = {}
         THEN iter' = [iter EXCEPT !.state = "done"]
         ELSE iter' = [iter EXCEPT !.bucket = to[1], !.pos = to[2],
                                   !.seen = Append(@, buckets[to[1]][to[2]])]
      /\ UNCHANGED <<buckets, elem_cnt, ret>>

\* hash_init ().
Init ==
  /\ buckets = [b \in 0 .. MIN_BUCKETS - 1 |-> <<>>]
  /\ elem_cnt = 0 /\ ret = NULL /\ iter = NoIter

Next ==
  \/ hash_clear \/ hash_first \/ hash_next
  \/ \E e \in Elem : hash_insert(e) \/ hash_replace(e) \/ hash_find(e) \/ hash_delete(e)

Spec == Init /\ [][Next]_vars

-----------------------------------------------------------------------------
(* Properties.                                                             *)

Contents == {e \in Elem : InTable(e)}

\* Type invariant.
TypeOK ==
  /\ DOMAIN buckets = 0 .. bucket_cnt - 1 /\ bucket_cnt & (bucket_cnt - 1) = 0
  /\ \A b \in DOMAIN buckets : ToSet(buckets[b]) \subseteq Elem
  /\ ret \in Elem \cup {NULL}

\* Every element is once in the table, in the bucket where find_bucket () looks for
\* it, also after rehash () could not get memory; elem_cnt counts them.
ElemsInPlace ==
  /\ \A b \in DOMAIN buckets : \A i \in DOMAIN buckets[b] :
       /\ find_bucket(buckets[b][i], bucket_cnt) = b
       /\ \A j \in DOMAIN buckets[b] : i # j => buckets[b][i] # buckets[b][j]
  /\ elem_cnt = Cardinality(Contents)

Abstract == INSTANCE ElemSet WITH contents <- Contents

\* The table implements a set of elements with distinct keys, whatever the number of
\* buckets, the failed attempts to change it and the collisions.
ImplementsElemSet == Abstract!Spec

\* An iteration without changes in between returns every element once.
IterationComplete ==
  iter.state = "done" => /\ ToSet(iter.seen) = Contents
                         /\ Len(iter.seen) = Cardinality(Contents)
=============================================================================

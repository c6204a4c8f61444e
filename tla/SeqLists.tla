------------------------------ MODULE SeqLists ------------------------------
(***************************************************************************)
(* What lib/kernel/list.h promises: each list is a sequence, no element is *)
(* in two places, and every operation has the effect its comment states.   *)
(* The less function compares the Key of two elements.                     *)
(***************************************************************************)
EXTENDS Integers, Sequences, SequencesExt, FiniteSets

CONSTANTS
  Elem,        \* the list elements
  Lists,       \* the lists
  Key,         \* Key[e]: what the less function compares
  Nil          \* no result

VARIABLES
  seqs,        \* seqs[l]: the elements of list l, front first
  result       \* what the last operation returned: an element, or <<n>> for
               \* the number n

vars == <<seqs, result>>

In(l) == ToSet(seqs[l])
Unlisted == Elem \ UNION {In(l) : l \in Lists}

\* e becomes element at of list l.
Insert(l, at, e) ==
  /\ seqs' = [seqs EXCEPT ![l] = InsertAt(@, at, e)]
  /\ result' = Nil

\* Behind every element that e does not come before.
InsertOrdered(l, e) ==
  Insert(l, 1 + Cardinality({i \in 1 .. Len(seqs[l]) :
                   \A j \in 1 .. i : Key[e] >= Key[seqs[l][j]]}), e)

\* Element at leaves list l, and the one behind it is returned.
Delete(l, at) ==
  /\ seqs' = [seqs EXCEPT ![l] = RemoveAt(@, at)]
  /\ result' = IF at < Len(seqs[l]) THEN seqs[l][at + 1] ELSE Nil

\* The front or the back leaves list l and is returned.
Pop(l, at) ==
  /\ seqs' = [seqs EXCEPT ![l] = RemoveAt(@, at)]
  /\ result' = seqs[l][at]

\* Elements i to j of list l move in front of element at of list k, another
\* list; within one list, the block of elements moves as a whole.
Splice(l, i, j, k, at) ==
  /\ seqs' =
       IF l # k
       THEN [seqs EXCEPT ![l] = SubSeq(@, 1, i - 1) \o SubSeq(@, j + 1, Len(@)),
               ![k] = SubSeq(@, 1, at - 1) \o SubSeq(seqs[l], i, j)
                        \o SubSeq(@, at, Len(@))]
       ELSE IF at < i
       THEN [seqs EXCEPT ![l] = SubSeq(@, 1, at - 1) \o SubSeq(@, i, j)
               \o SubSeq(@, at, i - 1) \o SubSeq(@, j + 1, Len(@))]
       ELSE [seqs EXCEPT ![l] = SubSeq(@, 1, i - 1) \o SubSeq(@, j + 1, at - 1)
               \o SubSeq(@, i, j) \o SubSeq(@, at, Len(@))]
  /\ result' = Nil

ReverseList(l) ==
  /\ seqs' = [seqs EXCEPT ![l] = Reverse(@)]
  /\ result' = Nil

\* The stable sort: elements of one key stay in the order they were in.
Sort(l) ==
  /\ seqs' = [seqs EXCEPT ![l] =
       SetToSortSeq(In(l), LAMBDA a, b :
         \/ Key[a] < Key[b]
         \/ Key[a] = Key[b] /\ \E i, j \in 1 .. Len(@) :
              i < j /\ @[i] = a /\ @[j] = b)]
  /\ result' = Nil

\* The elements of l equal to the one before them go to the end of k.
Unique(l, k) ==
  LET Repeated == {i \in 2 .. Len(seqs[l]) : Key[seqs[l][i]] = Key[seqs[l][i - 1]]}
      Part(S) == [n \in 1 .. Cardinality(S) |->
                    seqs[l][CHOOSE i \in S : Cardinality({j \in S : j <= i}) = n]]
  IN /\ seqs' = [seqs EXCEPT ![l] = Part(DOMAIN @ \ Repeated), ![k] = @ \o Part(Repeated)]
     /\ result' = Nil

\* The earliest element that no other exceeds, or none when l is empty.
Extreme(l, Beats(_, _)) ==
  /\ UNCHANGED seqs
  /\ result' = IF seqs[l] = << >> THEN Nil
               ELSE LET best == {i \in 1 .. Len(seqs[l]) :
                          \A j \in 1 .. Len(seqs[l]) : ~Beats(seqs[l][j], seqs[l][i])}
                    IN seqs[l][CHOOSE i \in best : \A j \in best : i <= j]

Size(l) == UNCHANGED seqs /\ result' = <<Len(seqs[l])>>

Init == seqs = [l \in Lists |-> << >>] /\ result = Nil

Next ==
  \E l \in Lists :
    \/ \E e \in Unlisted : \E at \in 1 .. Len(seqs[l]) + 1 : Insert(l, at, e)
    \/ \E e \in Unlisted : InsertOrdered(l, e)
    \/ \E at \in 1 .. Len(seqs[l]) : Delete(l, at)
    \/ seqs[l] # << >> /\ \E at \in {1, Len(seqs[l])} : Pop(l, at)
    \/ \E k \in Lists, i, j \in 1 .. Len(seqs[l]) :
         \E at \in 1 .. Len(seqs[k]) + 1 :
           i <= j /\ (l = k => at < i \/ at > j) /\ Splice(l, i, j, k, at)
    \/ ReverseList(l)
    \/ Sort(l)
    \/ \E k \in Lists \ {l} : Unique(l, k)
    \/ Extreme(l, LAMBDA a, b : Key[a] > Key[b])
    \/ Extreme(l, LAMBDA a, b : Key[a] < Key[b])
    \/ Size(l)

Spec == Init /\ [][Next]_vars
=============================================================================

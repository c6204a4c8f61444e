---------------------------- MODULE ThreadProofs ----------------------------
(***************************************************************************)
(* The safety properties of Thread, proved for any number of threads, any  *)
(* range of priorities, any time slice and any clock bound.                *)
(***************************************************************************)
EXTENDS Thread, KernelListProofs, WellFoundedInduction

-----------------------------------------------------------------------------
(* What list_insert_ordered () does to a list, for every list, element and *)
(* comparison function.                                                    *)

\* A comparison function that a list can be ordered by: a strict weak order on
\* the elements in S.
IsStrictWeakOrder(less, S) ==
  /\ \A a, b \in S : <<a, b>> \in less => <<b, a>> \notin less
  /\ \A a, b, c \in S : <<a, b>> \notin less /\ <<b, c>> \notin less
                          => <<a, c>> \notin less

\* The elements before the insertion point keep their places and the others
\* move up by one, as list_insert () links them.
LEMMA InsertAtElements ==
  ASSUME NEW S, NEW s \in Seq(S), NEW e \in S, NEW i \in 1 .. Len(s) + 1
  PROVE  /\ InsertAt(s, i, e) \in Seq(S)
         /\ Len(InsertAt(s, i, e)) = Len(s) + 1
         /\ \A j \in 1 .. Len(s) + 1 :
              InsertAt(s, i, e)[j] = IF j < i THEN s[j]
                                     ELSE IF j = i THEN e ELSE s[j - 1]
<1> DEFINE a == SubSeq(s, 1, i - 1)
           b == SubSeq(s, i, Len(s))
           c == a \o <<e>>
<1>1. a \in Seq(S) /\ Len(a) = i - 1 /\ \A j \in 1 .. i - 1 : a[j] = s[j]
  OBVIOUS
<1>2. /\ b \in Seq(S) /\ Len(b) = Len(s) - i + 1
      /\ \A j \in 1 .. Len(s) - i + 1 : b[j] = s[i + j - 1]
  OBVIOUS
<1> HIDE DEF a, b
<1>3. /\ c \in Seq(S) /\ Len(c) = i
      /\ \A j \in 1 .. i : c[j] = IF j < i THEN s[j] ELSE e
  BY <1>1
<1>4. InsertAt(s, i, e) = c \o b
  BY DEF InsertAt, a, b
<1> HIDE DEF c
<1> DEFINE r == c \o b
<1>5. /\ r \in Seq(S) /\ Len(r) = Len(c) + Len(b)
      /\ \A j \in 1 .. Len(c) + Len(b) :
           r[j] = IF j <= Len(c) THEN c[j] ELSE b[j - Len(c)]
  <2> HIDE DEF r
  <2> QED
    BY <1>2, <1>3, ConcatElements, Zenon DEF r
<1> HIDE DEF r
<1>6. /\ Len(s) \in Nat /\ Len(r) = Len(s) + 1
      /\ \A j \in 1 .. Len(s) + 1 : r[j] = IF j <= i THEN c[j] ELSE b[j - i]
  BY <1>2, <1>3, <1>5
<1>7. ASSUME NEW j \in 1 .. Len(s) + 1
      PROVE  r[j] = IF j < i THEN s[j] ELSE IF j = i THEN e ELSE s[j - 1]
  <2>1. CASE j <= i
    BY <2>1, <1>3, <1>6
  <2>2. CASE j > i
    <3>1. j - i \in 1 .. Len(s) - i + 1 /\ i + (j - i) - 1 = j - 1
      BY <2>2
    <3>2. b[j - i] = s[j - 1]
      BY <3>1, <1>2
    <3> QED
      BY <2>2, <3>2, <1>6
  <2> QED
    BY <2>1, <2>2, <1>6
<1> QED
  BY <1>4, <1>5, <1>6, <1>7 DEF r

\* A set of numbers that is not empty has a least element.
LEMMA LeastNatural ==
  ASSUME NEW T, T \subseteq Nat, T # {}
  PROVE  \E x \in T : \A y \in T : x <= y
<1> DEFINE R == OpToRel(<, Nat)
<1>1. \A x, y \in Nat : y < x => <<y, x>> \in R
  BY DEF OpToRel
<1> HIDE DEF R
<1>2. IsWellFoundedOn(R, Nat)
  BY NatLessThanWellFounded, Zenon DEF R
<1>3. PICK x \in T : \A y \in T : ~(<<y, x>> \in R)
  BY <1>2, WFMin, Zenon
<1>4. \A y \in T : ~(y < x)
  BY <1>1, <1>3, Zenon
<1> QED
  BY <1>4

\* The scan of list_insert_ordered () stops at the first element that the new
\* one comes before, or at the tail.
LEMMA InsertPointStops ==
  ASSUME NEW S, NEW s \in Seq(S), NEW e, NEW less
  PROVE  LET at == InsertPoint(s, e, less)
         IN  /\ at \in 1 .. Len(s) + 1
             /\ \A i \in 1 .. at - 1 : <<e, s[i]>> \notin less
             /\ at <= Len(s) => <<e, s[at]>> \in less
<1> DEFINE Stop == {i \in 1 .. Len(s) + 1 : i <= Len(s) => <<e, s[i]>> \in less}
<1>1. Len(s) + 1 \in Stop /\ Stop \subseteq Nat
  OBVIOUS
<1>4. PICK x \in Stop : \A y \in Stop : x <= y
  <2> HIDE DEF Stop
  <2> QED
    BY <1>1, LeastNatural, Zenon
<1>5. /\ x \in 1 .. Len(s) + 1
      /\ x <= Len(s) => <<e, s[x]>> \in less
      /\ \A i \in 1 .. x - 1 : <<e, s[i]>> \notin less
  BY <1>4
<1> QED
  BY <1>5, Zenon DEF InsertPoint

-----------------------------------------------------------------------------

\* list_insert_ordered () adds its element and nothing else.
LEMMA InsertOrderedAdds ==
  ASSUME NEW S, NEW s \in Seq(S), NEW e \in S, NEW less
  PROVE  /\ list_insert_ordered(s, e, less) \in Seq(S)
         /\ list_insert_ordered(s, e, less) # <<>>
         /\ ToSet(list_insert_ordered(s, e, less)) = ToSet(s) \cup {e}
         /\ NoRepeats(s) /\ e \notin ToSet(s)
              => NoRepeats(list_insert_ordered(s, e, less))
<1> DEFINE at == InsertPoint(s, e, less)
           r == InsertAt(s, at, e)
<1>1. at \in 1 .. Len(s) + 1
  BY InsertPointStops, Zenon
<1> HIDE DEF at
<1>2. /\ r \in Seq(S) /\ Len(r) = Len(s) + 1
      /\ \A j \in 1 .. Len(s) + 1 :
           r[j] = IF j < at THEN s[j] ELSE IF j = at THEN e ELSE s[j - 1]
  BY <1>1, InsertAtElements
<1>3. list_insert_ordered(s, e, less) = r
  BY DEF list_insert_ordered, at
<1> HIDE DEF r
<1>4. ToSet(r) \subseteq ToSet(s) \cup {e}
  BY <1>1, <1>2 DEF ToSet
<1>5. ToSet(s) \cup {e} \subseteq ToSet(r)
  <2>1. e \in ToSet(r)
    BY <1>1, <1>2 DEF ToSet
  <2>2. ASSUME NEW i \in 1 .. Len(s) PROVE s[i] \in ToSet(r)
    <3>1. CASE i < at
      BY <3>1, <1>1, <1>2 DEF ToSet
    <3>2. CASE i >= at
      <4>1. r[i + 1] = s[i] /\ i + 1 \in 1 .. Len(r)
        BY <3>2, <1>1, <1>2
      <4> QED
        BY <4>1, <1>2 DEF ToSet
    <3> QED
      BY <3>1, <3>2, <1>1
  <2> QED
    BY <2>1, <2>2 DEF ToSet
<1>6. ASSUME NoRepeats(s), e \notin ToSet(s) PROVE NoRepeats(r)
  <2>1. \A i, j \in 1 .. Len(s) : s[i] = s[j] => i = j
    BY <1>6 DEF NoRepeats
  <2>2. \A i \in 1 .. Len(s) : s[i] # e
    BY <1>6 DEF ToSet
  <2>3. ASSUME NEW i \in 1 .. Len(r), NEW j \in 1 .. Len(r), r[i] = r[j]
        PROVE  i = j
    <3> DEFINE others == {k \in 1 .. Len(r) : k # at}
    <3>0. r[at] = e /\ \A k \in others : r[k] # e
      <4>1. ASSUME NEW k \in others PROVE r[k] # e
        <5>1. CASE k < at
          BY <5>1, <2>2, <1>1, <1>2
        <5>2. CASE k > at
          <6>1. k - 1 \in 1 .. Len(s) /\ r[k] = s[k - 1]
            BY <5>2, <1>1, <1>2
          <6> QED
            BY <6>1, <2>2
        <5> QED
          BY <5>1, <5>2, <1>1
      <4> QED
        BY <4>1, <1>1, <1>2
    <3>1. CASE i = at
      BY <2>3, <3>0, <3>1
    <3>2. CASE j = at
      BY <2>3, <3>0, <3>2
    <3>3. CASE i # at /\ j # at
      <4> DEFINE old(k) == IF k < at THEN k ELSE k - 1
      <4>1. old(i) \in 1 .. Len(s) /\ old(j) \in 1 .. Len(s)
        BY <3>3, <1>1, <1>2
      <4>2. r[i] = s[old(i)] /\ r[j] = s[old(j)]
        BY <3>3, <1>1, <1>2
      <4>3. old(i) = old(j)
        BY <4>1, <4>2, <2>1, <2>3, Zenon
      <4> QED
        BY <4>3, <3>3, <1>1, <1>2
    <3> QED
      BY <3>1, <3>2, <3>3
  <2> QED
    BY <2>3, <1>2 DEF NoRepeats
<1> QED
  BY <1>2, <1>3, <1>4, <1>5, <1>6

\* It keeps an ordered list ordered.
LEMMA InsertOrderedSorts ==
  ASSUME NEW S, NEW s \in Seq(S), NEW e \in S, NEW less,
         IsStrictWeakOrder(less, S), IsOrdered(s, less)
  PROVE  IsOrdered(list_insert_ordered(s, e, less), less)
<1> DEFINE at == InsertPoint(s, e, less)
           r == InsertAt(s, at, e)
<1>1. /\ at \in 1 .. Len(s) + 1
      /\ \A i \in 1 .. at - 1 : <<e, s[i]>> \notin less
      /\ at <= Len(s) => <<e, s[at]>> \in less
  BY InsertPointStops
<1> HIDE DEF at
<1>2. /\ r \in Seq(S) /\ Len(r) = Len(s) + 1
      /\ \A j \in 1 .. Len(s) + 1 :
           r[j] = IF j < at THEN s[j] ELSE IF j = at THEN e ELSE s[j - 1]
  BY <1>1, InsertAtElements
<1>3. list_insert_ordered(s, e, less) = r
  BY DEF list_insert_ordered, at
<1> HIDE DEF r
<1>4. ASSUME NEW j \in 1 .. Len(s), j >= at PROVE <<s[j], e>> \notin less
  <2>1. s[j] \in S /\ s[at] \in S /\ at \in 1 .. Len(s)
    BY <1>1, <1>4
  <2>2. <<s[at], e>> \notin less
    BY <2>1, <1>1 DEF IsStrictWeakOrder
  <2>3. CASE j = at
    BY <2>2, <2>3
  <2>4. CASE j > at
    <3>1. <<s[j], s[at]>> \notin less
      BY <2>1, <2>4 DEF IsOrdered
    <3> QED
      BY <2>1, <2>2, <3>1 DEF IsStrictWeakOrder
  <2> QED
    BY <2>3, <2>4, <1>4, <1>1
<1>5. ASSUME NEW i \in 1 .. Len(r), NEW j \in 1 .. Len(r), i < j
      PROVE  <<r[j], r[i]>> \notin less
  <2>1. CASE j < at
    <3>1. /\ j \in 1 .. Len(s) /\ i \in 1 .. Len(s)
          /\ r[j] = s[j] /\ r[i] = s[i]
      BY <2>1, <1>1, <1>2, <1>5
    <3> QED
      BY <3>1, <1>5 DEF IsOrdered
  <2>2. CASE j = at
    BY <2>2, <1>1, <1>2, <1>5
  <2>3. CASE j > at /\ i = at
    <3>1. j - 1 \in 1 .. Len(s) /\ j - 1 >= at /\ r[j] = s[j - 1] /\ r[i] = e
      BY <2>3, <1>1, <1>2
    <3> QED
      BY <3>1, <1>4
  <2>4. CASE j > at /\ i < at
    <3>1. j - 1 \in 1 .. Len(s) /\ i < j - 1 /\ r[j] = s[j - 1] /\ r[i] = s[i]
      BY <2>4, <1>1, <1>2
    <3> QED
      BY <3>1 DEF IsOrdered
  <2>5. CASE j > at /\ i > at
    <3>1. j - 1 \in 1 .. Len(s) /\ i - 1 \in 1 .. Len(s) /\ i - 1 < j - 1
      BY <2>5, <1>1, <1>2, <1>5
    <3>2. r[j] = s[j - 1]
      BY <2>5, <1>1, <1>2
    <3>3. r[i] = s[i - 1]
      BY <2>5, <1>1, <1>2
    <3> QED
      BY <3>1, <3>2, <3>3 DEF IsOrdered
  <2> QED
    BY <2>1, <2>2, <2>3, <2>4, <2>5, <1>1, <1>2
<1> QED
  BY <1>3, <1>5 DEF IsOrdered

\* The front of an ordered list comes after no other element.
LEMMA FrontIsFirst ==
  ASSUME NEW S, NEW s \in Seq(S), s # <<>>, NEW less, IsOrdered(s, less)
  PROVE  /\ IsOrdered(Tail(s), less)
         /\ \A e \in ToSet(Tail(s)) : <<e, Head(s)>> \notin less
         /\ \A e \in ToSet(s) : e = Head(s) \/ <<e, Head(s)>> \notin less
<1>1. /\ Head(s) = s[1] /\ Len(s) >= 1 /\ Tail(s) \in Seq(S)
      /\ Len(Tail(s)) = Len(s) - 1
      /\ \A i \in 1 .. Len(s) - 1 : Tail(s)[i] = s[i + 1]
  OBVIOUS
<1>2. IsOrdered(Tail(s), less)
  BY <1>1 DEF IsOrdered
<1>3. \A e \in ToSet(Tail(s)) : <<e, Head(s)>> \notin less
  BY <1>1 DEF IsOrdered, ToSet
<1> QED
  BY <1>2, <1>3, PopFront

-----------------------------------------------------------------------------
(* The inductive invariant, in parts.                                      *)

\* No ready thread has a higher priority than the running one.
NothingHigher == \A t \in ToSet(ready_list) : priority[t] <= priority[current]

\* What schedule () and thread_unblock () must leave as it was.
RunInv ==
  /\ status \in [Thread -> Status]
  /\ priority \in [Thread -> Priority]
  /\ current \in Thread
  /\ ready_list \in Seq(Worker)
  /\ NoRepeats(ready_list)
  /\ \A t \in Thread : status[t] = "RUNNING" <=> t = current
  /\ \A t \in Worker : status[t] = "READY" <=> t \in ToSet(ready_list)
  /\ status[idle_thread] \in {"RUNNING", "READY", "BLOCKED"}
  /\ ReadyListSorted

\* The sleepers; a thread that is not one, and is not on its way to become
\* one, has slept enough.
SleepInv ==
  /\ Sleep_list \in Seq(Worker)
  /\ NoRepeats(Sleep_list)
  /\ \A t \in ToSet(Sleep_list) : status[t] = "BLOCKED"
  /\ wakeup_tick \in [Thread -> Int]
  /\ SleepListSorted
  /\ \A t \in Worker :
       t \notin ToSet(Sleep_list) /\ pc[t] \notin {"elapsed", "sleep"} =>
         wakeup_tick[t] <= ticks

\* Where threads and handlers can be.  A slice is over only while the handler
\* that ended it has yet to return.
ControlInv ==
  /\ pc \in [Thread -> {"run", "check", "yield", "elapsed", "sleep"}]
  /\ pc[idle_thread] = "run"
  /\ ticks \in 0 .. MaxTick
  /\ thread_ticks \in 0 .. TIME_SLICE
  /\ handler \in {"none", "wake", "age", "return"}
  /\ yield_on_return \in BOOLEAN
  /\ thread_ticks = TIME_SLICE => yield_on_return
  /\ handler = "none" => ~yield_on_return

\* Past thread_wake_up (), a ready thread of higher priority is about to get
\* the CPU: on the return of the handler, or by thread_check_preempt ().
PreemptInv ==
  \/ handler = "wake"
  \/ yield_on_return
  \/ pc[current] \in {"check", "yield"}
  \/ NothingHigher

IInv == RunInv /\ SleepInv /\ ControlInv /\ PreemptInv

-----------------------------------------------------------------------------
(* The comparison functions.                                               *)

\* Both comparison functions are strict weak orders.
LEMMA PriorityOrder ==
  ASSUME NEW pri \in [Thread -> Priority]
  PROVE  /\ IsStrictWeakOrder(thread_priority_greater(pri), Worker)
         /\ \A a, b \in Thread :
              <<a, b>> \in thread_priority_greater(pri) <=> pri[a] > pri[b]
<1>1. ASSUME NEW a \in Thread, NEW b \in Thread
      PROVE  <<a, b>> \in thread_priority_greater(pri) <=> pri[a] > pri[b]
  BY DEF thread_priority_greater
<1>2. \A a \in Thread : pri[a] \in Int
  BY ThreadAssumption DEF Priority
<1> QED
  BY <1>1, <1>2 DEF IsStrictWeakOrder, Thread

\* Not to be greater is to be at most as great.
LEMMA NotGreater ==
  ASSUME NEW pri \in [Thread -> Priority], NEW a \in Thread, NEW b \in Thread,
         <<a, b>> \notin thread_priority_greater(pri)
  PROVE  pri[a] <= pri[b]
<1>1. ~(pri[a] > pri[b])
  BY PriorityOrder
<1>2. pri[a] \in Int /\ pri[b] \in Int
  BY ThreadAssumption DEF Priority
<1> QED
  BY <1>1, <1>2

\* (the same for the order of Sleep_list)
LEMMA WakeupOrder ==
  ASSUME NEW wake \in [Thread -> Int]
  PROVE  /\ IsStrictWeakOrder(wakeup_tick_less(wake), Worker)
         /\ \A a, b \in Thread :
              <<a, b>> \in wakeup_tick_less(wake) <=> wake[a] < wake[b]
<1>1. ASSUME NEW a \in Thread, NEW b \in Thread
      PROVE  <<a, b>> \in wakeup_tick_less(wake) <=> wake[a] < wake[b]
  BY DEF wakeup_tick_less
<1> QED
  BY <1>1 DEF IsStrictWeakOrder, Thread

\* A list stays ordered by priority when no two of its threads swap ranks.
LEMMA PriorityOrderKept ==
  ASSUME NEW list \in Seq(Worker),
         NEW pri \in [Thread -> Priority], NEW new \in [Thread -> Priority],
         IsOrdered(list, thread_priority_greater(pri)),
         \A a, b \in ToSet(list) : new[a] > new[b] => pri[a] > pri[b]
  PROVE  IsOrdered(list, thread_priority_greater(new))
<1>1. \A i \in 1 .. Len(list) : list[i] \in Thread /\ list[i] \in ToSet(list)
  BY DEF Thread, ToSet
<1> QED
  BY <1>1, PriorityOrder DEF IsOrdered

\* A list stays ordered by wakeup_tick when its threads keep theirs.
LEMMA WakeupOrderKept ==
  ASSUME NEW list \in Seq(Worker),
         NEW wake \in [Thread -> Int], NEW new \in [Thread -> Int],
         IsOrdered(list, wakeup_tick_less(wake)),
         \A a \in ToSet(list) : new[a] = wake[a]
  PROVE  IsOrdered(list, wakeup_tick_less(new))
<1>1. \A i \in 1 .. Len(list) : list[i] \in Thread /\ list[i] \in ToSet(list)
  BY DEF Thread, ToSet
<1> QED
  BY <1>1, WakeupOrder DEF IsOrdered

\* The test of thread_check_preempt () looks only at the front, which is
\* enough on a sorted list.
LEMMA FrontDecides ==
  ASSUME NEW pri \in [Thread -> Priority], NEW list \in Seq(Worker),
         IsOrdered(list, thread_priority_greater(pri)), current \in Thread,
         ~FrontIsHigher(list, pri)
  PROVE  \A t \in ToSet(list) : pri[t] <= pri[current]
<1>1. CASE list = <<>>
  BY <1>1 DEF ToSet
<1>2. CASE list # <<>>
  <2>1. /\ Head(list) \in Worker
        /\ \A e \in ToSet(list) :
             e = Head(list) \/ <<e, Head(list)>> \notin thread_priority_greater(pri)
    BY <1>2, PopFront, FrontIsFirst
  <2>2. \A t \in Thread : pri[t] \in Int
    BY ThreadAssumption DEF Priority
  <2>3. ToSet(list) \subseteq Thread
    BY ElementsAre DEF Thread
  <2>4. Head(list) \in Thread /\ pri[Head(list)] <= pri[current]
    BY <1>2, <2>1, <2>2 DEF FrontIsHigher, Thread
  <2>5. \A t \in ToSet(list) : pri[t] <= pri[Head(list)]
    <3>1. ASSUME NEW t \in ToSet(list) PROVE pri[t] <= pri[Head(list)]
      <4>1. CASE t = Head(list)
        BY <4>1, <2>2, <2>4
      <4>2. CASE <<t, Head(list)>> \notin thread_priority_greater(pri)
        BY <4>2, <2>3, <2>4, NotGreater
      <4> QED
        BY <4>1, <4>2, <2>1
    <3> QED
      BY <3>1, Zenon
  <2>6. ASSUME NEW t \in ToSet(list) PROVE pri[t] <= pri[current]
    <3>1. pri[t] \in Int /\ pri[Head(list)] \in Int /\ pri[current] \in Int
      BY <2>2, <2>3, <2>4
    <3> QED
      BY <2>4, <2>5, <3>1
  <2> QED
    BY <2>6, Zenon
<1> QED
  BY <1>1, <1>2, Zenon
-----------------------------------------------------------------------------
(* schedule () and thread_unblock ().                                      *)

\* The state schedule () asserts and relies on: the running thread has been
\* given another status, and is on the ready list if that is THREAD_READY.
Descheduled(ready, stat) ==
  /\ ready \in Seq(Worker)
  /\ NoRepeats(ready)
  /\ IsOrdered(ready, thread_priority_greater(priority))
  /\ stat \in [Thread -> Status]
  /\ \A t \in Thread : stat[t] # "RUNNING"
  /\ \A t \in Worker : stat[t] = "READY" <=> t \in ToSet(ready)
  /\ stat[idle_thread] \in {"READY", "BLOCKED"}

\* schedule () picks a thread of highest priority and keeps lists and statuses
\* in step.
LEMMA ScheduleKeepsRunInv ==
  ASSUME NEW ready, NEW stat, Descheduled(ready, stat), Schedule(ready, stat),
         priority \in [Thread -> Priority], priority' = priority
  PROVE  /\ RunInv' /\ NothingHigher' /\ thread_ticks' = 0
         /\ \A t \in Worker : stat[t] = "BLOCKED" => status'[t] = "BLOCKED"
<1> DEFINE next == IF ready = <<>> THEN idle_thread ELSE Head(ready)
           rest == IF ready = <<>> THEN ready ELSE Tail(ready)
<1>1. ready_list' = rest /\ current' = next /\ thread_ticks' = 0
  BY DEF Schedule
<1>2. /\ status' \in [Thread -> Status]
      /\ \A t \in Thread : status'[t] =
           IF t = next THEN "RUNNING"
           ELSE IF t \in Worker \ {initial_thread} /\ stat[t] = "DYING" THEN "FREE"
           ELSE stat[t]
  BY DEF Schedule, Descheduled, Status
<1>3. /\ next \in Thread /\ rest \in Seq(Worker) /\ NoRepeats(rest)
      /\ IsOrdered(rest, thread_priority_greater(priority))
      /\ \A t \in Worker : t \in ToSet(rest) <=> t \in ToSet(ready) /\ t # next
      /\ \A t \in ToSet(rest) : priority[t] <= priority[next]
  <2>1. CASE ready = <<>>
    BY <2>1, ThreadAssumption DEF Descheduled, Thread, ToSet, IsOrdered
  <2>2. CASE ready # <<>>
    <3>1. /\ Head(ready) \in Worker /\ Tail(ready) \in Seq(Worker)
          /\ NoRepeats(Tail(ready)) /\ Head(ready) \notin ToSet(Tail(ready))
          /\ ToSet(ready) = ToSet(Tail(ready)) \cup {Head(ready)}
      BY <2>2, PopFront DEF Descheduled
    <3>2. /\ IsOrdered(Tail(ready), thread_priority_greater(priority))
          /\ \A e \in ToSet(Tail(ready)) :
               <<e, Head(ready)>> \notin thread_priority_greater(priority)
      BY <2>2, FrontIsFirst DEF Descheduled
    <3>3. ToSet(Tail(ready)) \subseteq Thread /\ Head(ready) \in Thread
      BY <3>1 DEF ToSet, Thread
    <3>4. \A t \in ToSet(Tail(ready)) : priority[t] <= priority[Head(ready)]
      BY <3>2, <3>3, NotGreater, Zenon
    <3> QED
      BY <2>2, <3>1, <3>2, <3>3, <3>4
  <2> QED
    BY <2>1, <2>2
<1>4. next = idle_thread \/ (next \in Worker /\ next \in ToSet(ready))
  BY PopFront DEF Descheduled
<1> HIDE DEF next, rest
<1>5. /\ \A t \in Thread : status'[t] = "RUNNING" <=> t = current'
      /\ \A t \in Worker : status'[t] = "READY" <=> t \in ToSet(ready_list')
      /\ status'[idle_thread] \in {"RUNNING", "READY", "BLOCKED"}
      /\ \A t \in Worker : stat[t] = "BLOCKED" => status'[t] = "BLOCKED"
  <2>1. \A t \in Thread : status'[t] = "RUNNING" <=> t = current'
    BY <1>1, <1>2 DEF Descheduled
  <2>2. \A t \in Worker : status'[t] = "READY" <=> t \in ToSet(ready_list')
    BY <1>1, <1>2, <1>3 DEF Descheduled, Thread
  <2>3. status'[idle_thread] \in {"RUNNING", "READY", "BLOCKED"}
    BY <1>2, ThreadAssumption DEF Descheduled, Thread
  <2>4. ASSUME NEW t \in Worker, stat[t] = "BLOCKED" PROVE status'[t] = "BLOCKED"
    <3>1. t # next
      BY <1>4, <2>4, ThreadAssumption DEF Descheduled
    <3> QED
      BY <3>1, <1>2, <2>4 DEF Thread
  <2> QED
    BY <2>1, <2>2, <2>3, <2>4
<1> QED
  BY <1>1, <1>2, <1>3, <1>5 DEF RunInv, NothingHigher, ReadyListSorted

\* thread_unblock () makes a thread ready that is not, and disturbs no other.
LEMMA UnblockKeepsRunInv ==
  ASSUME NEW t \in Worker, NEW pri \in [Thread -> Priority],
         RunInv, status[t] \in {"FREE", "BLOCKED"}, Unblock(t, pri),
         IsOrdered(ready_list, thread_priority_greater(pri)),
         priority' = pri, current' = current
  PROVE  /\ RunInv'
         /\ \A u \in Thread : u # t => status'[u] = status[u]
<1>1. t \in Thread /\ t # idle_thread /\ t \notin ToSet(ready_list) /\ t # current
  BY ThreadAssumption DEF RunInv, Thread
<1>2. ready_list' = list_insert_ordered(ready_list, t, thread_priority_greater(pri))
  BY DEF Unblock, ReadyInsert
<1>3. /\ ready_list' \in Seq(Worker) /\ NoRepeats(ready_list')
      /\ ToSet(ready_list') = ToSet(ready_list) \cup {t}
  BY <1>1, <1>2, InsertOrderedAdds DEF RunInv
<1>4. IsOrdered(ready_list', thread_priority_greater(pri))
  BY <1>2, PriorityOrder, InsertOrderedSorts DEF RunInv
<1>5. /\ status' \in [Thread -> Status] /\ status'[t] = "READY"
      /\ \A u \in Thread : u # t => status'[u] = status[u]
  BY <1>1 DEF Unblock, RunInv, Status
<1>6. /\ \A u \in Thread : status'[u] = "RUNNING" <=> u = current'
      /\ \A u \in Worker : status'[u] = "READY" <=> u \in ToSet(ready_list')
      /\ status'[idle_thread] \in {"RUNNING", "READY", "BLOCKED"}
  BY <1>1, <1>3, <1>5, ThreadAssumption DEF RunInv, Thread
<1> QED
  BY <1>3, <1>4, <1>5, <1>6 DEF RunInv, ReadyListSorted

\* A thread that gives up the CPU, for whatever it waits for or for ever.
LEMMA GivesUpCPU ==
  ASSUME RunInv, NEW s \in {"BLOCKED", "DYING"}, s = "DYING" => current # idle_thread
  PROVE  /\ Descheduled(ready_list, [status EXCEPT ![current] = s])
         /\ priority \in [Thread -> Priority]
BY ThreadAssumption DEF RunInv, Descheduled, Thread, Status, ReadyListSorted

\* thread_yield () leaves a thread of highest priority running.
LEMMA YieldKeepsRunInv ==
  ASSUME RunInv, Yield, priority' = priority
  PROVE  /\ RunInv' /\ NothingHigher' /\ thread_ticks' = 0
         /\ \A t \in Worker : status[t] = "BLOCKED" => status'[t] = "BLOCKED"
<1> DEFINE stat == [status EXCEPT ![current] = "READY"]
           ready == IF current = idle_thread THEN ready_list
                    ELSE ReadyInsert(ready_list, current, priority)
<1>1. /\ stat \in [Thread -> Status] /\ stat[current] = "READY"
      /\ \A t \in Thread : t # current => stat[t] = status[t]
  BY DEF RunInv, Status
<1>2. /\ ready \in Seq(Worker) /\ NoRepeats(ready)
      /\ IsOrdered(ready, thread_priority_greater(priority))
      /\ \A t \in Worker : t \in ToSet(ready) <=> t \in ToSet(ready_list) \/ t = current
  <2>1. CASE current = idle_thread
    BY <2>1, ThreadAssumption DEF RunInv, ReadyListSorted
  <2>2. CASE current # idle_thread
    <3>1. current \in Worker /\ current \notin ToSet(ready_list)
      BY <2>2 DEF RunInv, Thread
    <3>2. ready = list_insert_ordered(ready_list, current,
                                      thread_priority_greater(priority))
      BY <2>2 DEF ReadyInsert
    <3>3. /\ ready \in Seq(Worker) /\ NoRepeats(ready)
          /\ ToSet(ready) = ToSet(ready_list) \cup {current}
      BY <3>1, <3>2, InsertOrderedAdds DEF RunInv
    <3>4. IsOrdered(ready, thread_priority_greater(priority))
      BY <3>1, <3>2, PriorityOrder, InsertOrderedSorts DEF RunInv, ReadyListSorted
    <3> QED
      BY <3>3, <3>4
  <2> QED
    BY <2>1, <2>2
<1>3. Schedule(ready, stat)
  BY DEF Yield
<1> HIDE DEF ready, stat
<1>4. Descheduled(ready, stat)
  <2>1. \A t \in Thread : stat[t] # "RUNNING"
    BY <1>1 DEF RunInv
  <2>2. \A t \in Worker : stat[t] = "READY" <=> t \in ToSet(ready)
    BY <1>1, <1>2 DEF RunInv, Thread
  <2>3. stat[idle_thread] \in {"READY", "BLOCKED"}
    BY <1>1 DEF RunInv, Thread
  <2> QED
    BY <1>1, <1>2, <2>1, <2>2, <2>3 DEF Descheduled
<1>5. \A t \in Worker : status[t] = "BLOCKED" => stat[t] = "BLOCKED"
  BY <1>1 DEF RunInv, Thread
<1> QED
  BY <1>3, <1>4, <1>5, ScheduleKeepsRunInv DEF RunInv

-----------------------------------------------------------------------------
(* The invariant.                                                          *)

\* A step that neither touches the sleepers nor lets a thread leave
\* timer_sleep () keeps SleepInv.
LEMMA SleepersUntouched ==
  ASSUME SleepInv, UNCHANGED <<sleepVars, ticks>>,
         \A t \in Worker : status[t] = "BLOCKED" => status'[t] = "BLOCKED",
         \A t \in Worker : pc[t] \in {"elapsed", "sleep"}
                             => pc'[t] \in {"elapsed", "sleep"}
  PROVE  SleepInv'
<1>1. ToSet(Sleep_list) \subseteq Worker
  BY DEF SleepInv, ToSet
<1> QED
  BY <1>1 DEF SleepInv, sleepVars, SleepListSorted

\* The running thread is neither on a list nor blocked.
LEMMA CurrentIsOnNoList ==
  ASSUME RunInv, SleepInv
  PROVE  /\ current \notin ToSet(ready_list) /\ current \notin ToSet(Sleep_list)
         /\ status[current] = "RUNNING"
<1>1. ToSet(ready_list) \subseteq Worker /\ ToSet(Sleep_list) \subseteq Worker
  BY DEF RunInv, SleepInv, ToSet
<1> QED
  BY <1>1 DEF RunInv, SleepInv

\* The state thread_start () leaves satisfies the invariant.
LEMMA InitIInv == Init => IInv
<1> SUFFICES ASSUME Init PROVE IInv
  OBVIOUS
<1>1. ToSet(<<>>) = {} /\ NoRepeats(<<>>)
  BY DEF ToSet, NoRepeats
<1>2. RunInv
  BY <1>1, ThreadAssumption
     DEF Init, RunInv, Thread, Priority, Status, ReadyListSorted, IsOrdered
<1>3. SleepInv
  BY <1>1, ThreadAssumption DEF Init, SleepInv, Thread, SleepListSorted, IsOrdered
<1>4. ControlInv
  <2>1. /\ pc \in [Thread -> {"run", "check", "yield", "elapsed", "sleep"}]
        /\ pc[idle_thread] = "run"
    BY DEF Init, Thread
  <2>2. 0 \in 0 .. MaxTick /\ 0 \in 0 .. TIME_SLICE /\ 0 # TIME_SLICE
    BY ThreadAssumption
  <2> QED
    BY <2>1, <2>2, Zenon DEF Init, ControlInv
<1>5. PreemptInv
  BY <1>1 DEF Init, PreemptInv, NothingHigher
<1> QED
  BY <1>2, <1>3, <1>4, <1>5 DEF IInv

\* A running thread that gives up the CPU keeps the invariant.
LEMMA ScheduleKeepsIInv ==
  ASSUME IInv, handler = "none", NEW s \in {"BLOCKED", "DYING"},
         s = "DYING" => current # idle_thread,
         Schedule(ready_list, [status EXCEPT ![current] = s]),
         UNCHANGED <<priority, sleepVars, pc, intrVars>>
  PROVE  IInv'
<1>1. Descheduled(ready_list, [status EXCEPT ![current] = s])
  BY GivesUpCPU, Zenon DEF IInv
<1>2. /\ RunInv' /\ NothingHigher' /\ thread_ticks' = 0
      /\ \A t \in Worker : [status EXCEPT ![current] = s][t] = "BLOCKED"
                             => status'[t] = "BLOCKED"
  BY <1>1, ScheduleKeepsRunInv, Zenon DEF IInv, RunInv
<1>3. \A t \in Worker : status[t] = "BLOCKED" => status'[t] = "BLOCKED"
  BY <1>2 DEF IInv, RunInv, Thread
<1>4. SleepInv'
  BY <1>3, SleepersUntouched DEF IInv, intrVars
<1>5. ControlInv'
  BY <1>2, ThreadAssumption DEF IInv, ControlInv, intrVars
<1> QED
  BY <1>2, <1>4, <1>5 DEF IInv, PreemptInv

\* A step of the running thread that only moves it within thread.c.
LEMMA GotoKeepsIInv ==
  ASSUME IInv, NEW label \in {"run", "check", "yield", "elapsed", "sleep"},
         current # idle_thread, Goto(label),
         UNCHANGED <<runVars, priority, sleepVars, intrVars>>,
         pc[current] \in {"elapsed", "sleep"} /\ label \notin {"elapsed", "sleep"}
           => wakeup_tick[current] <= ticks,
         label \in {"check", "yield"} \/ NothingHigher \/ handler = "wake"
  PROVE  IInv'
<1>1. /\ pc' \in [Thread -> {"run", "check", "yield", "elapsed", "sleep"}]
      /\ pc'[current] = label
      /\ \A t \in Thread : t # current => pc'[t] = pc[t]
  BY DEF Goto, IInv, ControlInv, RunInv
<1>2. RunInv'
  BY DEF IInv, RunInv, runVars, ReadyListSorted
<1>3. SleepInv'
  BY <1>1 DEF IInv, SleepInv, sleepVars, runVars, intrVars, SleepListSorted, Thread
<1>4. ControlInv'
  BY <1>1 DEF IInv, ControlInv, runVars, intrVars, Thread
<1>5. PreemptInv'
  BY <1>1 DEF IInv, PreemptInv, NothingHigher, runVars, intrVars
<1> QED
  BY <1>2, <1>3, <1>4, <1>5 DEF IInv

\* Every step of the running thread keeps the invariant.
LEMMA ThreadStepKeepsIInv == IInv /\ ThreadStep => IInv'
<1> SUFFICES ASSUME IInv, ThreadStep PROVE IInv'
  OBVIOUS
<1>0. RunInv /\ SleepInv /\ ControlInv /\ PreemptInv
  BY DEF IInv
<1>1. /\ current \notin ToSet(ready_list) /\ current \notin ToSet(Sleep_list)
      /\ status[current] = "RUNNING" /\ current \in Thread
  BY <1>0, CurrentIsOnNoList DEF RunInv
<1>2. ToSet(ready_list) \subseteq Worker /\ ToSet(Sleep_list) \subseteq Worker
  BY <1>0 DEF RunInv, SleepInv, ToSet
<1>3. handler = "none" /\ pc[current] \notin {"check", "yield"} => NothingHigher
  BY <1>0 DEF PreemptInv, ControlInv
<1>4. ASSUME NEW t \in Worker, NEW pri \in Priority, thread_create(t, pri)
      PROVE  IInv'
  <2>1. /\ t # current /\ t # idle_thread /\ t \in Thread /\ current # idle_thread
        /\ t \notin ToSet(ready_list) /\ t \notin ToSet(Sleep_list)
    BY <1>0, <1>1, <1>4, ThreadAssumption
       DEF thread_create, Calling, Thread, RunInv, SleepInv
  <2>2. /\ priority' \in [Thread -> Priority]
        /\ \A u \in Thread : u # t => priority'[u] = priority[u]
    BY <1>0, <1>4, <2>1 DEF thread_create, RunInv
  <2>3. IsOrdered(ready_list, thread_priority_greater(priority'))
    BY <1>0, <1>2, <2>1, <2>2, PriorityOrderKept, Zenon DEF RunInv, ReadyListSorted, Thread
  <2>4. RunInv' /\ \A u \in Thread : u # t => status'[u] = status[u]
    BY <1>0, <1>4, <2>2, <2>3, UnblockKeepsRunInv, Zenon DEF thread_create
  <2>5. /\ wakeup_tick' \in [Thread -> Int] /\ wakeup_tick'[t] = 0
        /\ \A u \in Thread : u # t => wakeup_tick'[u] = wakeup_tick[u]
        /\ Sleep_list' = Sleep_list /\ ticks' = ticks
    BY <1>0, <1>4, <2>1 DEF thread_create, SleepInv, intrVars
  <2>6. /\ pc' \in [Thread -> {"run", "check", "yield", "elapsed", "sleep"}]
        /\ pc'[t] = "run" /\ pc'[current] = "check" /\ pc[current] = "run"
        /\ \A u \in Thread : u # t /\ u # current => pc'[u] = pc[u]
    BY <1>0, <1>1, <1>4, <2>1 DEF thread_create, ControlInv, Calling, At
  <2>7. SleepInv'
    <3>1. IsOrdered(Sleep_list, wakeup_tick_less(wakeup_tick'))
      BY <1>0, <1>2, <2>1, <2>5, WakeupOrderKept, Zenon DEF SleepInv, SleepListSorted, Thread
    <3>2. \A u \in ToSet(Sleep_list) : status'[u] = "BLOCKED"
      BY <1>0, <1>2, <2>1, <2>4 DEF SleepInv, Thread
    <3>3. ticks \in Nat
      BY <1>0, ThreadAssumption DEF ControlInv
    <3>4. ASSUME NEW u \in Worker, u \notin ToSet(Sleep_list),
                 pc'[u] \notin {"elapsed", "sleep"}
          PROVE  wakeup_tick'[u] <= ticks
      <4>1. CASE u = t
        BY <2>5, <3>3, <4>1
      <4>2. CASE u # t
        <5>1. pc[u] \notin {"elapsed", "sleep"} /\ u \in Thread
          BY <2>6, <3>4, <4>2 DEF Thread
        <5> QED
          BY <1>0, <2>5, <3>4, <4>2, <5>1, Zenon DEF SleepInv
      <4> QED
        BY <4>1, <4>2
    <3> QED
      BY <1>0, <2>5, <3>1, <3>2, <3>4 DEF SleepInv, SleepListSorted
  <2>8. ControlInv'
    BY <1>0, <1>4, <2>1, <2>6 DEF thread_create, ControlInv, intrVars, Thread
  <2>9. PreemptInv'
    BY <1>4, <2>6 DEF thread_create, PreemptInv
  <2> QED
    BY <2>4, <2>7, <2>8, <2>9 DEF IInv
<1>5. ASSUME NEW pri \in Priority, thread_set_priority(pri)
      PROVE  IInv'
  <2>1. /\ priority' \in [Thread -> Priority]
        /\ \A u \in Thread : u # current => priority'[u] = priority[u]
    BY <1>0, <1>1, <1>5 DEF thread_set_priority, RunInv
  <2>2. IsOrdered(ready_list, thread_priority_greater(priority'))
    BY <1>0, <1>1, <1>2, <2>1, PriorityOrderKept, Zenon DEF RunInv, ReadyListSorted, Thread
  <2>3. RunInv'
    BY <1>0, <1>5, <2>1, <2>2 DEF thread_set_priority, RunInv, runVars, ReadyListSorted
  <2>4. /\ pc' \in [Thread -> {"run", "check", "yield", "elapsed", "sleep"}]
        /\ pc'[current] = "check" /\ pc[current] = "run" /\ current # idle_thread
        /\ \A u \in Thread : u # current => pc'[u] = pc[u]
    BY <1>0, <1>1, <1>5 DEF thread_set_priority, Goto, ControlInv, Calling, At
  <2>5. SleepInv'
    BY <1>0, <1>1, <1>5, <2>4, SleepersUntouched
       DEF thread_set_priority, runVars, intrVars, Thread
  <2>6. ControlInv'
    BY <1>0, <1>5, <2>4 DEF thread_set_priority, ControlInv, runVars, intrVars, Thread
  <2>7. PreemptInv'
    BY <1>5, <2>4 DEF thread_set_priority, PreemptInv, runVars
  <2> QED
    BY <2>3, <2>5, <2>6, <2>7 DEF IInv
<1>6. ASSUME NEW t \in Worker, thread_unblock(t)
      PROVE  IInv'
  <2>1. RunInv' /\ \A u \in Thread : u # t => status'[u] = status[u]
    BY <1>0, <1>6, UnblockKeepsRunInv
       DEF thread_unblock, Unblockable, RunInv, ReadyListSorted
  <2>2. /\ pc' \in [Thread -> {"run", "check", "yield", "elapsed", "sleep"}]
        /\ pc'[current] = "check" /\ pc[current] = "run" /\ current # idle_thread
        /\ \A u \in Thread : u # current => pc'[u] = pc[u]
    BY <1>0, <1>1, <1>6 DEF thread_unblock, Goto, ControlInv, Calling, At
  <2>3. SleepInv'
    <3>1. \A u \in ToSet(Sleep_list) : status'[u] = "BLOCKED"
      BY <1>0, <1>2, <1>6, <2>1, Zenon DEF thread_unblock, Unblockable, SleepInv, Thread
    <3> QED
      BY <1>0, <1>6, <2>2, <3>1, Zenon
         DEF thread_unblock, SleepInv, SleepListSorted, sleepVars, intrVars, Thread
  <2>4. ControlInv'
    BY <1>0, <1>6, <2>2 DEF thread_unblock, ControlInv, intrVars, Thread
  <2>5. PreemptInv'
    BY <1>6, <2>2 DEF thread_unblock, PreemptInv
  <2> QED
    BY <2>1, <2>3, <2>4, <2>5 DEF IInv
<1>7. ASSUME NEW n \in SleepTicks, timer_sleep(n)
      PROVE  IInv'
  <2>1. /\ wakeup_tick' \in [Thread -> Int]
        /\ \A u \in Thread : u # current => wakeup_tick'[u] = wakeup_tick[u]
    <3>1. ticks + n \in Int
      BY <1>0, ThreadAssumption DEF ControlInv
    <3> QED
      BY <1>0, <1>1, <1>7, <3>1 DEF timer_sleep, SleepInv
  <2>2. /\ pc' \in [Thread -> {"run", "check", "yield", "elapsed", "sleep"}]
        /\ pc'[current] = "elapsed" /\ pc[current] = "run" /\ current # idle_thread
        /\ \A u \in Thread : u # current => pc'[u] = pc[u]
    BY <1>0, <1>1, <1>7 DEF timer_sleep, Goto, ControlInv, Calling, At
  <2>3. RunInv'
    BY <1>0, <1>7 DEF timer_sleep, RunInv, runVars, ReadyListSorted
  <2>4. SleepInv'
    <3>1. IsOrdered(Sleep_list, wakeup_tick_less(wakeup_tick'))
      BY <1>0, <1>1, <1>2, <2>1, WakeupOrderKept, Zenon DEF SleepInv, SleepListSorted, Thread
    <3> QED
      BY <1>0, <1>7, <2>1, <2>2, <3>1
         DEF timer_sleep, SleepInv, SleepListSorted, runVars, intrVars, Thread
  <2>5. ControlInv'
    BY <1>0, <1>7, <2>2 DEF timer_sleep, ControlInv, runVars, intrVars, Thread
  <2>6. PreemptInv'
    BY <1>3, <1>7, <2>2
       DEF timer_sleep, PreemptInv, NothingHigher, runVars, Calling, At
  <2> QED
    BY <2>3, <2>4, <2>5, <2>6 DEF IInv
<1>8. CASE thread_block
  BY <1>8, ScheduleKeepsIInv DEF thread_block, Calling, At
<1>9. CASE thread_exit
  BY <1>9, ScheduleKeepsIInv DEF thread_exit, Calling, At
<1>10. CASE idle
  BY <1>10, ScheduleKeepsIInv DEF idle, At
<1>11. CASE thread_check_preempt
  <2>1. current # idle_thread
    BY <1>0, <1>11 DEF thread_check_preempt, At, ControlInv
  <2>2. ~FrontIsHigher(ready_list, priority) => NothingHigher
    BY <1>0, FrontDecides DEF RunInv, ReadyListSorted, NothingHigher
  <2> QED
    BY <1>11, <2>1, <2>2, GotoKeepsIInv DEF thread_check_preempt, At
<1>12. CASE timer_elapsed
  <2>1. current # idle_thread
    BY <1>0, <1>12 DEF timer_elapsed, At, ControlInv
  <2>2. ~(ticks < wakeup_tick[current]) => wakeup_tick[current] <= ticks
    BY <1>0, <1>1 DEF ControlInv, SleepInv
  <2> QED
    BY <1>3, <1>12, <2>1, <2>2, GotoKeepsIInv DEF timer_elapsed, At
<1>13. CASE thread_yield
  <2>1. /\ RunInv' /\ NothingHigher' /\ thread_ticks' = 0
        /\ \A t \in Worker : status[t] = "BLOCKED" => status'[t] = "BLOCKED"
    BY <1>0, <1>13, YieldKeepsRunInv DEF thread_yield
  <2>2. /\ pc' \in [Thread -> {"run", "check", "yield", "elapsed", "sleep"}]
        /\ pc'[current] = "run" /\ pc[current] \in {"run", "yield"}
        /\ \A u \in Thread : u # current => pc'[u] = pc[u]
    BY <1>0, <1>1, <1>13 DEF thread_yield, Goto, ControlInv, Calling, At
  <2>3. SleepInv'
    BY <1>0, <1>13, <2>1, <2>2, SleepersUntouched DEF thread_yield, intrVars, Thread
  <2>4. ControlInv'
    BY <1>0, <1>13, <2>1, <2>2, ThreadAssumption
       DEF thread_yield, ControlInv, intrVars, Thread
  <2> QED
    BY <2>1, <2>3, <2>4 DEF IInv, PreemptInv
<1>14. CASE thread_sleep
  <2>1. current \in Worker /\ current # idle_thread
    BY <1>0, <1>1, <1>14 DEF thread_sleep, At, ControlInv, Thread
  <2>2. Descheduled(ready_list, [status EXCEPT ![current] = "BLOCKED"])
    BY <1>0, GivesUpCPU
  <2>3. /\ RunInv' /\ NothingHigher' /\ thread_ticks' = 0
        /\ \A t \in Worker : [status EXCEPT ![current] = "BLOCKED"][t] = "BLOCKED"
                               => status'[t] = "BLOCKED"
    BY <1>0, <1>14, <2>2, ScheduleKeepsRunInv, Zenon DEF thread_sleep, RunInv
  <2>4. /\ \A t \in Worker : status[t] = "BLOCKED" => status'[t] = "BLOCKED"
        /\ status'[current] = "BLOCKED"
    BY <1>0, <2>1, <2>3 DEF RunInv, Thread
  <2>5. /\ Sleep_list' \in Seq(Worker) /\ NoRepeats(Sleep_list')
        /\ ToSet(Sleep_list') = ToSet(Sleep_list) \cup {current}
    BY <1>0, <1>1, <1>14, <2>1, InsertOrderedAdds DEF thread_sleep, SleepInv
  <2>6. IsOrdered(Sleep_list', wakeup_tick_less(wakeup_tick))
    BY <1>0, <1>14, <2>1, WakeupOrder, InsertOrderedSorts, Zenon
       DEF thread_sleep, SleepInv, SleepListSorted
  <2>7. /\ pc' \in [Thread -> {"run", "check", "yield", "elapsed", "sleep"}]
        /\ \A u \in Thread : u # current => pc'[u] = pc[u]
    BY <1>0, <1>1, <1>14 DEF thread_sleep, Goto, ControlInv
  <2>8. SleepInv'
    BY <1>0, <1>2, <1>14, <2>4, <2>5, <2>6, <2>7, Zenon
       DEF thread_sleep, SleepInv, SleepListSorted, intrVars, Thread
  <2>9. ControlInv'
    <3>1. pc'[idle_thread] = "run"
      BY <1>0, <2>1, <2>7 DEF ControlInv, Thread
    <3>2. UNCHANGED <<ticks, handler, yield_on_return>> /\ thread_ticks' \in 0 .. TIME_SLICE
          /\ thread_ticks' # TIME_SLICE
      BY <1>14, <2>3, ThreadAssumption DEF thread_sleep, intrVars
    <3> QED
      BY <1>0, <2>7, <3>1, <3>2 DEF ControlInv
  <2> QED
    BY <2>3, <2>8, <2>9 DEF IInv, PreemptInv
<1> QED
  BY <1>4, <1>5, <1>6, <1>7, <1>8, <1>9, <1>10, <1>11, <1>12, <1>13, <1>14
     DEF ThreadStep

\* Every step of an interrupt handler keeps the invariant.
LEMMA InterruptKeepsIInv ==
  ASSUME IInv,
         \/ timer_interrupt \/ HandlerStep \/ DeviceInterruptNoWaiter
         \/ \E t \in Worker : DeviceInterrupt(t)
  PROVE  IInv'
<1>0. RunInv /\ SleepInv /\ ControlInv /\ PreemptInv
  BY DEF IInv
<1>1. /\ current \notin ToSet(ready_list) /\ current \notin ToSet(Sleep_list)
      /\ status[current] = "RUNNING" /\ current \in Thread
  BY <1>0, CurrentIsOnNoList DEF RunInv
<1>2. ToSet(ready_list) \subseteq Worker /\ ToSet(Sleep_list) \subseteq Worker
  BY <1>0 DEF RunInv, SleepInv, ToSet
<1>3. CASE timer_interrupt
  <2>1. RunInv'
    BY <1>0, <1>3 DEF timer_interrupt, RunInv, ReadyListSorted
  <2>2. ticks \in Nat /\ ticks' \in 0 .. MaxTick /\ ticks <= ticks'
    BY <1>0, <1>3, ThreadAssumption DEF timer_interrupt, ControlInv
  <2>3. SleepInv'
    <3>1. ASSUME NEW t \in Worker, t \notin ToSet(Sleep_list),
                 pc[t] \notin {"elapsed", "sleep"}
          PROVE  wakeup_tick[t] <= ticks'
      <4>1. wakeup_tick[t] \in Int /\ wakeup_tick[t] <= ticks /\ ticks' \in Int
        BY <1>0, <2>2, <3>1 DEF SleepInv, Thread
      <4> QED
        BY <4>1, <2>2
    <3> QED
      BY <1>0, <1>3, <3>1 DEF timer_interrupt, SleepInv, SleepListSorted, sleepVars
  <2>4. /\ thread_ticks' \in 0 .. TIME_SLICE
        /\ yield_on_return' = (thread_ticks' >= TIME_SLICE)
    <3>1. thread_ticks \in 0 .. TIME_SLICE /\ thread_ticks # TIME_SLICE
      BY <1>0, <1>3 DEF timer_interrupt, ControlInv
    <3> QED
      BY <1>3, <3>1, ThreadAssumption DEF timer_interrupt
  <2>5. ControlInv'
    <3>0. thread_ticks' = TIME_SLICE => thread_ticks' >= TIME_SLICE
      BY ThreadAssumption
    <3>1. thread_ticks' = TIME_SLICE => yield_on_return'
      BY <2>4, <3>0, Zenon
    <3>2. yield_on_return' \in BOOLEAN
      BY <2>4
    <3> QED
      BY <1>0, <1>3, <2>2, <2>4, <3>1, <3>2 DEF timer_interrupt, ControlInv
  <2> QED
    BY <1>3, <2>1, <2>3, <2>5 DEF timer_interrupt, IInv, PreemptInv
<1>4. CASE WakeNext
  <2> DEFINE t == Head(Sleep_list)
  <2>1. /\ t \in Worker /\ Sleep_list' \in Seq(Worker) /\ NoRepeats(Sleep_list')
        /\ t \in ToSet(Sleep_list) /\ t \notin ToSet(Sleep_list')
        /\ ToSet(Sleep_list) = ToSet(Sleep_list') \cup {t}
    BY <1>0, <1>4, PopFront DEF WakeNext, SleepInv
  <2>2. IsOrdered(Sleep_list', wakeup_tick_less(wakeup_tick))
    BY <1>0, <1>4, FrontIsFirst DEF WakeNext, SleepInv, SleepListSorted
  <2>3. status[t] = "BLOCKED" /\ wakeup_tick[t] <= ticks /\ Unblock(t, priority)
    BY <1>0, <1>4, <2>1 DEF WakeNext, SleepInv
  <2> HIDE DEF t
  <2>4. RunInv' /\ \A u \in Thread : u # t => status'[u] = status[u]
    BY <1>0, <1>4, <2>1, <2>3, UnblockKeepsRunInv, Zenon DEF WakeNext, RunInv, ReadyListSorted
  <2>5. SleepInv'
    BY <1>0, <1>2, <1>4, <2>1, <2>2, <2>3, <2>4, Zenon
       DEF WakeNext, SleepInv, SleepListSorted, intrVars, Thread
  <2>6. ControlInv'
    BY <1>0, <1>4 DEF WakeNext, ControlInv, intrVars
  <2> QED
    BY <1>4, <2>4, <2>5, <2>6 DEF WakeNext, IInv, PreemptInv, intrVars
<1>5. CASE WakeEnd
  <2>1. RunInv' /\ SleepInv'
    BY <1>0, <1>5
       DEF WakeEnd, RunInv, SleepInv, runVars, sleepVars, ReadyListSorted, SleepListSorted
  <2>2. yield_on_return' = (yield_on_return \/ FrontIsHigher(ready_list, priority))
    BY <1>5 DEF WakeEnd, CheckPreemptInHandler
  <2>3. yield_on_return' \in BOOLEAN /\ (yield_on_return => yield_on_return')
    BY <2>2, Zenon
  <2>4. ControlInv'
    BY <1>0, <1>5, <2>3 DEF WakeEnd, ControlInv, runVars
  <2>5. ~FrontIsHigher(ready_list, priority) => NothingHigher
    BY <1>0, FrontDecides DEF RunInv, ReadyListSorted, NothingHigher
  <2>6. PreemptInv'
    BY <1>5, <2>2, <2>5, Zenon DEF WakeEnd, PreemptInv, NothingHigher, runVars
  <2> QED
    BY <2>1, <2>4, <2>6 DEF IInv
<1>6. CASE thread_aging
  <2>1. priority' = [t \in Thread |->
                       IF t \in ToSet(ready_list) /\ priority[t] < PRI_MAX
                       THEN priority[t] + 1 ELSE priority[t]]
    BY <1>6 DEF thread_aging
  <2>2. priority' \in [Thread -> Priority]
    BY <1>0, <2>1, ThreadAssumption DEF RunInv, Priority
  <2>3. \A a, b \in ToSet(ready_list) :
          priority'[a] > priority'[b] => priority[a] > priority[b]
    <3>1. ASSUME NEW a \in ToSet(ready_list), NEW b \in ToSet(ready_list),
                 priority'[a] > priority'[b]
          PROVE  priority[a] > priority[b]
      <4>1. /\ a \in Thread /\ b \in Thread
            /\ priority[a] \in PRI_MIN .. PRI_MAX
            /\ priority[b] \in PRI_MIN .. PRI_MAX
        BY <1>0, <1>2 DEF RunInv, Thread, Priority
      <4> QED
        BY <2>1, <3>1, <4>1, ThreadAssumption
    <3> QED
      BY <3>1
  <2>4. IsOrdered(ready_list, thread_priority_greater(priority'))
    BY <1>0, <2>2, <2>3, PriorityOrderKept DEF RunInv, ReadyListSorted
  <2>5. RunInv'
    BY <1>0, <1>6, <2>2, <2>4 DEF thread_aging, RunInv, runVars, ReadyListSorted
  <2>6. SleepInv'
    BY <1>0, <1>6, SleepersUntouched DEF thread_aging, runVars
  <2>7. yield_on_return' = (yield_on_return \/ FrontIsHigher(ready_list, priority'))
    BY <1>6 DEF thread_aging, CheckPreemptInHandler
  <2>8. ControlInv'
    <3>1. yield_on_return' \in BOOLEAN /\ (yield_on_return => yield_on_return')
      BY <2>7, Zenon
    <3> QED
      BY <1>0, <1>6, <3>1 DEF thread_aging, ControlInv, runVars
  <2>9. ~FrontIsHigher(ready_list, priority')
          => \A t \in ToSet(ready_list) : priority'[t] <= priority'[current]
    BY <1>0, <1>1, <2>2, <2>4, FrontDecides DEF RunInv
  <2>10. PreemptInv'
    BY <1>6, <2>7, <2>9, Zenon DEF thread_aging, PreemptInv, NothingHigher, runVars
  <2> QED
    BY <2>5, <2>6, <2>8, <2>10 DEF IInv
<1>7. CASE IntrReturn
  <2>1. CASE yield_on_return
    <3>1. /\ RunInv' /\ NothingHigher' /\ thread_ticks' = 0
          /\ \A t \in Worker : status[t] = "BLOCKED" => status'[t] = "BLOCKED"
      BY <1>0, <1>7, <2>1, YieldKeepsRunInv DEF IntrReturn
    <3>2. SleepInv'
      BY <1>0, <1>7, <3>1, SleepersUntouched DEF IntrReturn
    <3>3. ControlInv'
      <4>1. 0 \in 0 .. TIME_SLICE /\ 0 # TIME_SLICE
        BY ThreadAssumption
      <4> QED
        BY <1>0, <1>7, <3>1, <4>1, Zenon DEF IntrReturn, ControlInv
    <3> QED
      BY <3>1, <3>2, <3>3 DEF IInv, PreemptInv
  <2>2. CASE ~yield_on_return
    <3>1. UNCHANGED runVars
      BY <1>7, <2>2 DEF IntrReturn
    <3>2. RunInv' /\ SleepInv'
      BY <1>0, <1>7, <3>1
         DEF IntrReturn, RunInv, SleepInv, runVars, sleepVars, ReadyListSorted,
             SleepListSorted
    <3>3. ControlInv'
      BY <1>0, <1>7, <2>2, <3>1, Zenon DEF IntrReturn, ControlInv, runVars
    <3>4. PreemptInv'
      BY <1>0, <1>7, <2>2, <3>1 DEF IntrReturn, PreemptInv, NothingHigher, runVars
    <3> QED
      BY <3>2, <3>3, <3>4 DEF IInv
  <2> QED
    BY <2>1, <2>2
<1>8. ASSUME NEW t \in Worker, DeviceInterrupt(t)
      PROVE  IInv'
  <2>1. RunInv' /\ \A u \in Thread : u # t => status'[u] = status[u]
    BY <1>0, <1>8, UnblockKeepsRunInv
       DEF DeviceInterrupt, Unblockable, RunInv, ReadyListSorted
  <2>2. SleepInv'
    <3>1. \A u \in ToSet(Sleep_list) : status'[u] = "BLOCKED"
      BY <1>0, <1>2, <1>8, <2>1, Zenon DEF DeviceInterrupt, Unblockable, SleepInv, Thread
    <3> QED
      BY <1>0, <1>8, <3>1, Zenon DEF DeviceInterrupt, SleepInv, SleepListSorted, sleepVars
  <2>3. ControlInv'
    <3>1. yield_on_return' \in BOOLEAN
      BY <1>8 DEF DeviceInterrupt, FrontIsHigher
    <3>2. thread_ticks # TIME_SLICE
      BY <1>0, <1>8 DEF DeviceInterrupt, ControlInv
    <3> QED
      BY <1>0, <1>8, <3>1, <3>2 DEF DeviceInterrupt, ControlInv
  <2>4. ~FrontIsHigher(ready_list', priority) => NothingHigher'
    <3>1. /\ ready_list' \in Seq(Worker) /\ priority' = priority /\ current' = current
          /\ IsOrdered(ready_list', thread_priority_greater(priority))
      BY <1>8, <2>1 DEF DeviceInterrupt, RunInv, ReadyListSorted
    <3> QED
      BY <1>0, <1>1, <3>1, FrontDecides DEF RunInv, NothingHigher
  <2>5. PreemptInv'
    BY <1>8, <2>4 DEF DeviceInterrupt, PreemptInv
  <2> QED
    BY <2>1, <2>2, <2>3, <2>5 DEF IInv
<1>9. CASE DeviceInterruptNoWaiter
  <2>1. RunInv' /\ SleepInv'
    BY <1>0, <1>9
       DEF DeviceInterruptNoWaiter, RunInv, SleepInv, runVars, sleepVars,
           ReadyListSorted, SleepListSorted
  <2>2. ControlInv'
    <3>1. yield_on_return' \in BOOLEAN
      BY <1>9 DEF DeviceInterruptNoWaiter, FrontIsHigher
    <3>2. thread_ticks # TIME_SLICE
      BY <1>0, <1>9 DEF DeviceInterruptNoWaiter, ControlInv
    <3> QED
      BY <1>0, <1>9, <3>1, <3>2 DEF DeviceInterruptNoWaiter, ControlInv, runVars
  <2>3. ~FrontIsHigher(ready_list, priority) => NothingHigher
    BY <1>0, FrontDecides DEF RunInv, ReadyListSorted, NothingHigher
  <2>4. PreemptInv'
    BY <1>9, <2>3 DEF DeviceInterruptNoWaiter, PreemptInv, NothingHigher, runVars
  <2> QED
    BY <2>1, <2>2, <2>4 DEF IInv
<1> QED
  BY <1>3, <1>4, <1>5, <1>6, <1>7, <1>8, <1>9 DEF HandlerStep

\* Every step keeps the invariant.
LEMMA NextKeepsIInv == IInv /\ [Next]_vars => IInv'
<1>1. IInv /\ UNCHANGED vars => IInv'
  BY DEF IInv, RunInv, SleepInv, ControlInv, PreemptInv, NothingHigher,
         ReadyListSorted, SleepListSorted, vars, runVars, sleepVars, intrVars
<1> QED
  BY <1>1, ThreadStepKeepsIInv, InterruptKeepsIInv DEF Next

\* The invariant holds in every reachable state.
THEOREM Invariance == Spec => []IInv
BY InitIInv, NextKeepsIInv, PTL DEF Spec

-----------------------------------------------------------------------------
(* What it means for the scheduler.                                        *)

\* The variables of thread.c have their types, the time slice included: no
\* thread runs for more than TIME_SLICE ticks.
THEOREM TypeCorrect == Spec => []TypeOK
<1>1. IInv => TypeOK
  BY DEF IInv, RunInv, SleepInv, ControlInv, TypeOK
<1> QED
  BY <1>1, Invariance, PTL

\* The lists and the statuses of threads always agree, so that one elem is
\* never on two lists and thread_current ()'s assertion holds.
THEOREM ListsAlwaysMatchStatus == Spec => []ListsMatchStatus
<1>1. IInv => ListsMatchStatus
  BY DEF IInv, RunInv, SleepInv, ListsMatchStatus
<1> QED
  BY <1>1, Invariance, PTL

\* ready_list and Sleep_list are always sorted, with -aging as without.
THEOREM ListsAlwaysSorted == Spec => [](ReadyListSorted /\ SleepListSorted)
<1>1. IInv => ReadyListSorted /\ SleepListSorted
  BY DEF IInv, RunInv, SleepInv
<1> QED
  BY <1>1, Invariance, PTL

\* Priority scheduling: outside interrupt handlers and
\* thread_check_preempt (), the running thread has the highest priority.
THEOREM HighestPriorityAlwaysRuns == Spec => []HighestPriorityRuns
<1>1. IInv => HighestPriorityRuns
  BY Zenon DEF IInv, ControlInv, PreemptInv, NothingHigher, HighestPriorityRuns
<1> QED
  BY <1>1, Invariance, PTL

\* timer_sleep () never returns early.
THEOREM AlwaysSleepsLongEnough == Spec => []SleepsLongEnough
<1>1. IInv => SleepsLongEnough
  BY DEF IInv, SleepInv, SleepsLongEnough
<1> QED
  BY <1>1, Invariance, PTL

\* thread_wake_up () leaves nobody asleep who is due: stopping at the first
\* sleeper that is not due is enough, because Sleep_list is sorted.
THEOREM NobodyEverOversleeps == Spec => NobodyOversleeps
<1>1. ASSUME IInv, [Next]_vars, handler = "wake", handler' # "wake"
      PROVE  \A t \in ToSet(Sleep_list') : wakeup_tick'[t] > ticks'
  <2>1. WakeEnd
    BY <1>1, Zenon DEF Next, ThreadStep, HandlerStep, thread_create, thread_set_priority,
        thread_block, thread_unblock, thread_check_preempt, thread_yield, thread_exit,
        timer_sleep, timer_elapsed, thread_sleep, idle, timer_interrupt, WakeNext,
        thread_aging, DeviceInterrupt, DeviceInterruptNoWaiter, IntrReturn, At,
        Calling, vars, intrVars
  <2>2. CASE Sleep_list = <<>>
    BY <2>1, <2>2 DEF WakeEnd, sleepVars, ToSet
  <2>3. CASE Sleep_list # <<>>
    <3>1. wakeup_tick[Head(Sleep_list)] > ticks /\ UNCHANGED <<sleepVars, ticks>>
      BY <2>1, <2>3 DEF WakeEnd
    <3>2. /\ Head(Sleep_list) \in Worker
          /\ \A t \in ToSet(Sleep_list) :
               \/ t = Head(Sleep_list)
               \/ <<t, Head(Sleep_list)>> \notin wakeup_tick_less(wakeup_tick)
      BY <1>1, <2>3, PopFront, FrontIsFirst, Zenon DEF IInv, SleepInv, SleepListSorted
    <3>3. ToSet(Sleep_list) \subseteq Thread /\ Head(Sleep_list) \in Thread
      BY <1>1, <3>2, ElementsAre, Zenon DEF IInv, SleepInv, Thread
    <3>4. wakeup_tick \in [Thread -> Int] /\ ticks \in Int
      BY <1>1 DEF IInv, SleepInv, ControlInv
    <3>5. ASSUME NEW t \in ToSet(Sleep_list) PROVE wakeup_tick[t] > ticks
      <4>1. CASE t = Head(Sleep_list)
        BY <4>1, <3>1
      <4>2. CASE <<t, Head(Sleep_list)>> \notin wakeup_tick_less(wakeup_tick)
        <5>1. ~(wakeup_tick[t] < wakeup_tick[Head(Sleep_list)])
          BY <4>2, <3>3, <3>4, WakeupOrder
        <5>2. wakeup_tick[t] \in Int /\ wakeup_tick[Head(Sleep_list)] \in Int
          BY <3>3, <3>4
        <5> QED
          BY <5>1, <5>2, <3>1, <3>4
      <4> QED
        BY <4>1, <4>2, <3>2
    <3> QED
      BY <3>1, <3>5 DEF sleepVars
  <2> QED
    BY <2>2, <2>3
<1>2. IInv /\ [Next]_vars =>
        [handler = "wake" /\ handler' # "wake" =>
           \A t \in ToSet(Sleep_list') : wakeup_tick'[t] > ticks']_vars
  BY <1>1
<1> QED
  BY <1>2, Invariance, PTL DEF Spec, NobodyOversleeps
=============================================================================

----------------------------- MODULE SynchProofs -----------------------------
(***************************************************************************)
(* What semaphores, locks and condition variables promise, proved for any  *)
(* number of threads, semaphores, locks and conditions: every stretch of   *)
(* synch.c keeps the invariant of SynchInvariant, which implies each of    *)
(* the properties of Synch.                                                *)
(***************************************************************************)
EXTENDS SynchInvariant, FiniteSetTheorems

-----------------------------------------------------------------------------
(* Wakeups.                                                                *)

\* The threads on their way to test a value are finitely many.
LEMMA RetestingFinite ==
  ASSUME NEW s
  PROVE  /\ IsFiniteSet(Retesting(s)) /\ Cardinality(Retesting(s)) \in Nat
         /\ Retesting(s) \in SUBSET Worker
<1>1. Retesting(s) \in SUBSET Worker
  BY DEF Retesting
<1> QED
  BY <1>1, SynchAssumption, FS_Subset, FS_CardinalityType

\* The same after a step.
LEMMA RetestingFiniteNext ==
  ASSUME NEW s
  PROVE  IsFiniteSet(Retesting(s)') /\ Cardinality(Retesting(s)') \in Nat
<1>1. Retesting(s)' \in SUBSET Worker
  BY DEF Retesting
<1> QED
  BY <1>1, SynchAssumption, FS_Subset, FS_CardinalityType

\* What a step may do to a semaphore: nobody waits, there is nothing to take,
\* no more is to be taken by no fewer threads, a unit was taken by one of
\* them, or a unit was added and a waiter woken for it.
WakeupOf(s) ==
  \/ waiters'[s] = <<>>
  \/ value'[s] = 0
  \/ waiters[s] # <<>> /\ value'[s] = value[s] /\ Retesting(s) \subseteq Retesting(s)'
  \/ /\ waiters[s] # <<>> /\ value'[s] = value[s] - 1
     /\ \E t : Retesting(s) \ {t} \subseteq Retesting(s)'
  \/ /\ waiters[s] # <<>> /\ value'[s] = value[s] + 1
     /\ \E h : h \notin Retesting(s) /\ Retesting(s) \cup {h} \subseteq Retesting(s)'

\* A step that does one of these to every semaphore loses no wakeup.
LEMMA WakeupsKept ==
  ASSUME NoLostWakeup, value \in [Sema -> Nat], \A s \in Sema : WakeupOf(s)
  PROVE  NoLostWakeup'
<1> SUFFICES ASSUME NEW s \in Sema, waiters'[s] # <<>>
             PROVE  value'[s] <= Cardinality(Retesting(s)')
  BY DEF NoLostWakeup
<1> DEFINE R == Retesting(s)
           N == Retesting(s)'
<1>1. /\ IsFiniteSet(R) /\ Cardinality(R) \in Nat /\ IsFiniteSet(N) /\ Cardinality(N) \in Nat
      /\ value[s] \in Nat
  BY RetestingFinite, RetestingFiniteNext
<1>2. waiters[s] # <<>> => value[s] <= Cardinality(R)
  BY DEF NoLostWakeup
<1>3. /\ \/ value'[s] = 0
         \/ waiters[s] # <<>> /\ value'[s] = value[s] /\ R \subseteq N
         \/ waiters[s] # <<>> /\ value'[s] = value[s] - 1 /\ \E t : R \ {t} \subseteq N
         \/ /\ waiters[s] # <<>> /\ value'[s] = value[s] + 1
            /\ \E h : h \notin R /\ R \cup {h} \subseteq N
  BY Zenon DEF WakeupOf
<1> HIDE DEF R, N
<1>4. CASE value'[s] = 0
  BY <1>1, <1>4 DEF N
<1>5. CASE waiters[s] # <<>> /\ value'[s] = value[s] /\ R \subseteq N
  <2>1. Cardinality(R) <= Cardinality(N)
    BY <1>1, <1>5, FS_Subset
  <2> QED
    BY <1>1, <1>2, <1>5, <2>1 DEF N
<1>6. ASSUME NEW t, waiters[s] # <<>>, value'[s] = value[s] - 1, R \ {t} \subseteq N
      PROVE  value'[s] <= Cardinality(N)
  <2>1. IsFiniteSet(R \ {t}) /\ Cardinality(R \ {t}) >= Cardinality(R) - 1
    <3>1. /\ IsFiniteSet(R \ {t})
          /\ Cardinality(R \ {t}) = IF t \in R THEN Cardinality(R) - 1 ELSE Cardinality(R)
      BY <1>1, FS_RemoveElement, Zenon
    <3> QED
      BY <1>1, <3>1
  <2>2. Cardinality(R \ {t}) <= Cardinality(N) /\ Cardinality(R \ {t}) \in Nat
    BY <1>1, <1>6, <2>1, FS_Subset, FS_CardinalityType
  <2> QED
    BY <1>1, <1>2, <1>6, <2>1, <2>2
<1>7. ASSUME NEW h, waiters[s] # <<>>, value'[s] = value[s] + 1, h \notin R,
             R \cup {h} \subseteq N
      PROVE  value'[s] <= Cardinality(N)
  <2>1. IsFiniteSet(R \cup {h}) /\ Cardinality(R \cup {h}) = Cardinality(R) + 1
    BY <1>1, <1>7, FS_AddElement
  <2>2. Cardinality(R \cup {h}) <= Cardinality(N)
    BY <1>1, <1>7, <2>1, FS_Subset
  <2> QED
    BY <1>1, <1>2, <1>7, <2>1, <2>2
<1> QED
  BY <1>3, <1>4, <1>5, <1>6, <1>7, Zenon DEF N

-----------------------------------------------------------------------------
(* Stretches in which nobody starts or ends waiting for a semaphore.       *)

\* Such a stretch keeps the lists of waiters and every wakeup.
LEMMA NobodyWaits ==
  ASSUME SInv, current \in Worker, NEW q, Then(q), UNCHANGED <<vars, waiters>>,
         ReadsDown(op[current], {}), \A s \in Sema : value'[s] = value[s]
  PROVE  ElemInv' /\ WaitersSorted' /\ NoLostWakeup'
<1>0. OpInv /\ priority \in [Thread -> Priority] /\ NoLostWakeup /\ value \in [Sema -> Nat]
  BY DEF SInv, SemaInv, IInv, RunInv
<1>1. /\ op'[current] = q
      /\ \A t \in Worker : t # current => op'[t] = op[t]
  BY <1>0, OpAfter
<1>2. status' = status /\ Sleep_list' = Sleep_list /\ priority' = priority
  BY DEF vars, runVars, sleepVars
<1>3. \A t \in Worker : Unblockable(t)' <=> Unblockable(t)
  BY <1>2 DEF Unblockable
<1>4. \A t \in Worker : Unblockable(t) => op'[t] = op[t] /\ priority'[t] = priority[t]
  BY <1>1, <1>2, CallerNotWaiting
<1>5. ElemInv' /\ WaitersSorted'
  BY <1>0, <1>2, <1>3, <1>4, WaitersKept
<1>6. ASSUME NEW s \in Sema PROVE WakeupOf(s)
  <2>1. Retesting(s) \subseteq Retesting(s)'
    BY <1>1 DEF Retesting, AtStep, ReadsDown, StartsWith
  <2> QED
    BY <2>1 DEF WakeupOf
<1> QED
  BY <1>0, <1>5, <1>6, WakeupsKept

\* k->holder = thread_current ().
LEMMA OwnKeeps ==
  ASSUME SInv, current \in Worker, OwnTurn
  PROVE  SemaInv'
<1>0. OpInv /\ value \in [Sema -> Nat]
  BY DEF SInv, SemaInv
<1>1. PICK k \in Lock : op[current] = <<<<"own", k>>>> /\ SetHolder(k, current, <<>>)
  BY DEF OwnTurn
<1>2. /\ Reads(op[current], {}, {k}, {k}, {}, {}, {}) /\ Reads(<<>>, {}, {}, {}, {}, {}, {})
  BY <1>1, ReadLock, ReadFree, Zenon
<1>3. /\ holder' = [holder EXCEPT ![k] = current] /\ Then(<<>>)
      /\ UNCHANGED <<vars, waiters>> /\ value' = value /\ cond_waiters' = cond_waiters
  BY <1>1 DEF SetHolder
<1>4. OpInv'
  BY <1>0, <1>2, <1>3, OpKept, Zenon DEF Reads, OpShape
<1>5. ElemInv' /\ WaitersSorted' /\ NoLostWakeup'
  BY <1>2, <1>3, NobodyWaits DEF Reads
<1>6. LockInv'
  BY <1>2, <1>3, HolderSet, Zenon DEF Reads
<1>7. CondInv'
  BY <1>2, <1>3, CondKept DEF Reads
<1> QED
  BY <1>0, <1>3, <1>4, <1>5, <1>6, <1>7 DEF SemaInv

\* k->holder = NULL.
LEMMA DisownKeeps ==
  ASSUME SInv, current \in Worker, DisownTurn
  PROVE  SemaInv'
<1>0. OpInv /\ value \in [Sema -> Nat]
  BY DEF SInv, SemaInv
<1>1. PICK k \in Lock :
        /\ holder[k] = current
        /\ \/ op[current] = <<>> /\ SetHolder(k, NULL, <<<<"up", k>>>>)
           \/ op[current] = WaitDisown(current, k) /\ SetHolder(k, NULL, WaitUp(current, k))
  BY DEF DisownTurn
<1>2. ASSUME NEW q, SetHolder(k, NULL, q), OpShape(current, q), NEW h, NEW x, NEW waits,
             Reads(op[current], {}, {}, h, x, {}, waits), Reads(q, {}, {k}, {k}, {}, {}, waits)
      PROVE  SemaInv'
  <2>1. /\ holder' = [holder EXCEPT ![k] = NULL] /\ Then(q)
        /\ UNCHANGED <<vars, waiters>> /\ value' = value /\ cond_waiters' = cond_waiters
    BY <1>2 DEF SetHolder
  <2>2. OpInv'
    BY <1>0, <1>2, <2>1, OpKept DEF Reads
  <2>3. ElemInv' /\ WaitersSorted' /\ NoLostWakeup'
    BY <1>2, <2>1, NobodyWaits DEF Reads
  <2>4. LockInv'
    BY <1>1, <1>2, <2>1, HolderReset, Zenon DEF Reads
  <2>5. CondInv'
    BY <1>2, <2>1, CondKept DEF Reads
  <2> QED
    BY <1>0, <2>1, <2>2, <2>3, <2>4, <2>5 DEF SemaInv
<1>3. CASE op[current] = <<>> /\ SetHolder(k, NULL, <<<<"up", k>>>>)
  <2>1. OpShape(current, <<<<"up", k>>>>)
    BY DEF OpShape
  <2>2. /\ Reads(op[current], {}, {}, {}, {}, {}, {})
        /\ Reads(<<<<"up", k>>>>, {}, {k}, {k}, {}, {}, {})
    BY <1>3, ReadFree, ReadLock, Zenon
  <2> QED
    BY <1>2, <1>3, <2>1, <2>2
<1>4. CASE op[current] = WaitDisown(current, k) /\ SetHolder(k, NULL, WaitUp(current, k))
  <2>1. OpShape(current, WaitUp(current, k))
    BY DEF OpShape
  <2>2. /\ Reads(op[current], {}, {}, {k}, {k}, {}, {current})
        /\ Reads(WaitUp(current, k), {}, {k}, {k}, {}, {}, {current})
    BY <1>4, ReadWait
  <2> QED
    BY <1>2, <1>4, <2>1, <2>2
<1> QED
  BY <1>1, <1>3, <1>4

\* cond_wait () up to its lock_release ().
LEMMA WaitKeeps ==
  ASSUME SInv, current \in Worker, WaitTurn
  PROVE  SemaInv'
<1>0. /\ OpInv /\ value \in [Sema -> Nat] /\ ElemInv /\ CondInv /\ LockInv
      /\ current \in Sema
  BY DEF SInv, SemaInv, Sema
<1>1. PICK c \in Cond : /\ op[current] = <<>> /\ holder[CondLock[c]] = current
                        /\ Wait(c, WaitDisown(current, CondLock[c]))
  BY DEF WaitTurn
<1> DEFINE k == CondLock[c]
           q == WaitDisown(current, k)
<1>2. k \in Lock
  BY SynchAssumption
<1>3. /\ Reads(op[current], {}, {}, {}, {}, {}, {}) /\ Reads(q, {}, {}, {k}, {k}, {}, {current})
  BY <1>1, <1>2, ReadFree, ReadWait
<1>4. OpShape(current, q)
  BY <1>2 DEF OpShape
<1>5. /\ value' = [value EXCEPT ![current] = 0]
      /\ waiters' = [waiters EXCEPT ![current] = <<>>]
      /\ cond_waiters' = [cond_waiters EXCEPT ![c] = Append(@, current)]
      /\ Then(q) /\ UNCHANGED vars /\ holder' = holder /\ holder[k] = current
  BY <1>1 DEF Wait
<1> HIDE DEF q, k
<1>6. value[current] = 0
  <2>1. SignalOf(current) /\ ~InWait(current)
    BY <1>0, <1>3, Zenon DEF CondInv, InWait, Reads, ReadsCond
  <2> QED
    BY <2>1 DEF SignalOf
<1>7. waiters[current] = <<>>
  <2>1. SUFFICES ASSUME waiters[current] # <<>> PROVE FALSE
    OBVIOUS
  <2>2. PICK h \in Worker : h \in ToSet(waiters[current])
    BY <1>0, <2>1, PopFront DEF ElemInv
  <2>3. h = current
    BY <1>0, <2>2, OwnSemaphore, Zenon DEF ElemInv
  <2> QED
    BY <1>0, <2>2, <2>3, CallerNotWaiting
<1>8. waiters' = waiters /\ value' = value
  BY <1>0, <1>5, <1>6, <1>7 DEF ElemInv
<1>9. OpInv'
  BY <1>0, <1>3, <1>4, <1>5, OpKept DEF Reads
<1>10. ElemInv' /\ WaitersSorted' /\ NoLostWakeup'
  BY <1>3, <1>5, <1>8, NobodyWaits DEF Reads
<1>11. LockInv'
  <2>1. \A j \in Lock : j \in {k} => (holder[j] = current <=> j \in {k})
    BY <1>5
  <2> QED
    BY <1>3, <1>5, <1>8, <2>1, LockKept DEF Reads
<1>12. CondInv'
  BY <1>3, <1>5, WaitStarted, Zenon DEF Reads
<1> QED
  BY <1>0, <1>8, <1>9, <1>10, <1>11, <1>12 DEF SemaInv

\* cond_signal () up to its sema_up ().
LEMMA SignalKeeps ==
  ASSUME SInv, current \in Worker, SignalTurn
  PROVE  SemaInv'
<1>0. OpInv /\ value \in [Sema -> Nat] /\ CondInv
  BY DEF SInv, SemaInv
<1>a. PICK c \in Cond : \E more \in {<<>>, <<<<"broadcast", c>>>>} :
        op[current] \in {<<>>, more} /\ Signal(c, more, <<>>)
  BY DEF SignalTurn
<1>1. PICK more \in {<<>>, <<<<"broadcast", c>>>>} :
        op[current] \in {<<>>, more} /\ Signal(c, more, <<>>)
  BY <1>a
<1>2. Reads(op[current], {}, {}, {}, {}, {}, {})
  BY <1>1, ReadFree, ReadSignal, Zenon
<1>3. ASSUME NEW q, Then(q), OpShape(current, q), NEW wakes, Reads(q, {}, {}, {}, {}, wakes, {})
      PROVE  OpInv' /\ ElemInv' /\ WaitersSorted' /\ NoLostWakeup' /\ LockInv' /\ value' = value
  <2>1. UNCHANGED <<vars, waiters>> /\ value' = value /\ holder' = holder
    BY <1>1 DEF Signal
  <2>2. OpInv'
    BY <1>0, <1>3, OpKept DEF Reads
  <2>3. ElemInv' /\ WaitersSorted' /\ NoLostWakeup'
    BY <1>2, <1>3, <2>1, NobodyWaits DEF Reads
  <2>4. LockInv'
    <3>1. \A k \in Lock : k \in {} => (holder[k] = current <=> k \in {})
      OBVIOUS
    <3> QED
      BY <1>2, <1>3, <2>1, <3>1, LockKept DEF Reads
  <2> QED
    BY <2>1, <2>2, <2>3, <2>4
<1>4. CASE cond_waiters[c] = <<>>
  <2>1. Then(<<>>) /\ cond_waiters' = cond_waiters /\ OpShape(current, <<>>)
    BY <1>1, <1>4 DEF Signal, OpShape
  <2>2. /\ OpInv' /\ ElemInv' /\ WaitersSorted' /\ NoLostWakeup' /\ LockInv' /\ value' = value
    BY <1>3, <2>1, ReadFree
  <2>3. CondInv'
    BY <1>2, <2>1, <2>2, ReadFree, CondKept DEF Reads
  <2> QED
    BY <1>0, <2>2, <2>3 DEF SemaInv
<1>5. CASE cond_waiters[c] # <<>>
  <2> DEFINE h == Head(cond_waiters[c])
             q == <<<<"up", h>>>> \o more \o <<>>
  <2>1. h \in Worker
    BY <1>0, <1>5, PopFront DEF CondInv
  <2>2. /\ Then(q) /\ cond_waiters' = [cond_waiters EXCEPT ![c] = Tail(@)]
    BY <1>1, <1>5 DEF Signal
  <2> HIDE DEF h
  <2>3. q = <<<<"up", h>>>> \/ q = <<<<"up", h>>, <<"broadcast", c>>>>
    <3>1. <<<<"up", h>>>> \o <<>> = <<<<"up", h>>>>
      OBVIOUS
    <3>2. <<<<"up", h>>>> \o <<<<"broadcast", c>>>> = <<<<"up", h>>, <<"broadcast", c>>>>
      BY JoinOneOne
    <3>3. <<<<"up", h>>, <<"broadcast", c>>>> \o <<>> = <<<<"up", h>>, <<"broadcast", c>>>>
      OBVIOUS
    <3> QED
      BY <1>1, <3>1, <3>2, <3>3, Zenon
  <2> HIDE DEF q
  <2>4. Reads(q, {}, {}, {}, {}, {h}, {})
    BY <2>1, <2>3, ReadSignal, Zenon
  <2>5. OpShape(current, q)
    BY <2>1, <2>3 DEF OpShape
  <2>6. /\ OpInv' /\ ElemInv' /\ WaitersSorted' /\ NoLostWakeup' /\ LockInv' /\ value' = value
    BY <1>3, <2>2, <2>4, <2>5
  <2>7. CondInv'
    BY <1>2, <1>5, <2>2, <2>4, <2>6, SignalStarted, Zenon DEF Reads, h
  <2> QED
    BY <1>0, <2>6, <2>7 DEF SemaInv
<1> QED
  BY <1>4, <1>5

-----------------------------------------------------------------------------
(* sema_down ().                                                           *)

\* The running thread is put on the list of s.
Enqueues(s) == waiters' = [waiters EXCEPT ![s] = ReadyInsert(@, current, priority)]

\* What sema_down () does when the value is 0.
LEMMA DownBlocks ==
  ASSUME NEW s, NEW rest, NEW q, Down(s, rest), value[s] = 0, <<<<"down", s>>>> \o rest = q
  PROVE  /\ Enqueues(s) /\ thread_block /\ Then(q)
         /\ value' = value /\ holder' = holder /\ cond_waiters' = cond_waiters
<1>1. /\ Enqueues(s) /\ thread_block /\ Then(<<<<"down", s>>>> \o rest)
      /\ value' = value /\ holder' = holder /\ cond_waiters' = cond_waiters
  BY DEF Down, Enqueues
<1> QED
  BY <1>1, Zenon

\* It waits.
LEMMA BlockKeeps ==
  ASSUME SInv, current \in Worker, NEW s \in Sema, NEW q, value[s] = 0,
         thread_block, Enqueues(s),
         Then(q), value' = value, holder' = holder, cond_waiters' = cond_waiters,
         OpShape(current, q), StartsWith(q, <<"down", s>>),
         NEW d, NEW g, NEW x, NEW h, NEW y, NEW waits, d \subseteq {s},
         Reads(op[current], d, {}, g, x, {}, waits), Reads(q, {s}, {}, h, y, {}, waits),
         \A k \in Lock : k \in h => (holder[k] = current <=> k \in y)
  PROVE  SemaInv'
<1>0. OpInv /\ value \in [Sema -> Nat] /\ NoLostWakeup /\ ElemInv
  BY DEF SInv, SemaInv
<1>1. /\ op'[current] = q
      /\ \A t \in Worker : t # current => op'[t] = op[t]
  BY <1>0, OpAfter
<1>2. OpInv'
  BY <1>0, OpKept DEF Reads
<1>3. ElemInv' /\ WaitersSorted'
  BY <1>1, WaitersGrow, Zenon DEF StartsWith, Enqueues
<1>4. LockInv'
  BY LockKept, Zenon DEF Reads
<1>5. CondInv'
  BY CondKept, Zenon DEF Reads
<1>6. ASSUME NEW r \in Sema PROVE WakeupOf(r)
  <2>1. CASE r = s
    BY <2>1, Zenon DEF WakeupOf
  <2>2. CASE r # s
    <3>1. waiters'[r] = waiters[r] /\ value'[r] = value[r]
      BY <1>0, <2>2, Zenon DEF ElemInv, Enqueues
    <3>2. current \notin Retesting(r)
      BY <2>2, Zenon DEF Retesting, AtStep, Reads, ReadsDown, StartsWith
    <3>3. Retesting(r) \subseteq Retesting(r)'
      BY <1>1, <3>1, <3>2, Zenon DEF Retesting, AtStep
    <3> QED
      BY <3>1, <3>3, Zenon DEF WakeupOf
  <2> QED
    BY <2>1, <2>2
<1>7. NoLostWakeup'
  BY <1>0, <1>6, WakeupsKept, Zenon
<1> QED
  BY <1>0, <1>2, <1>3, <1>4, <1>5, <1>7 DEF SemaInv

\* It takes a unit.
LEMMA TakeKeepsWaiters ==
  ASSUME SInv, current \in Worker, NEW s \in Sema, NEW q, value[s] > 0,
         value' = [value EXCEPT ![s] = value[s] - 1], Then(q), UNCHANGED <<vars, waiters>>,
         NEW d, d \subseteq {s}, ReadsDown(op[current], d)
  PROVE  ElemInv' /\ WaitersSorted' /\ NoLostWakeup' /\ value' \in [Sema -> Nat]
<1>0. /\ OpInv /\ priority \in [Thread -> Priority] /\ NoLostWakeup /\ value \in [Sema -> Nat]
  BY DEF SInv, SemaInv, IInv, RunInv
<1>1. /\ op'[current] = q
      /\ \A t \in Worker : t # current => op'[t] = op[t]
  BY <1>0, OpAfter
<1>2. status' = status /\ Sleep_list' = Sleep_list /\ priority' = priority
  BY DEF vars, runVars, sleepVars
<1>3. \A t \in Worker : Unblockable(t)' <=> Unblockable(t)
  BY <1>2 DEF Unblockable
<1>4. \A t \in Worker : Unblockable(t) => op'[t] = op[t] /\ priority'[t] = priority[t]
  BY <1>1, <1>2, CallerNotWaiting
<1>5. ElemInv' /\ WaitersSorted'
  BY <1>0, <1>2, <1>3, <1>4, WaitersKept
<1>6. value' \in [Sema -> Nat]
  BY <1>0
<1>7. ASSUME NEW r \in Sema PROVE WakeupOf(r)
  <2>1. Retesting(r) \ {current} \subseteq Retesting(r)'
    BY <1>1 DEF Retesting, AtStep
  <2>2. CASE r = s
    <3>1. value'[r] = value[r] - 1
      BY <1>0, <2>2
    <3>2. \E t : Retesting(r) \ {t} \subseteq Retesting(r)'
      BY <2>1, Zenon
    <3> QED
      BY <3>1, <3>2, Zenon DEF WakeupOf
  <2>3. CASE r # s
    <3>1. current \notin Retesting(r)
      BY <2>3 DEF Retesting, AtStep, ReadsDown, StartsWith
    <3>2. value'[r] = value[r]
      BY <1>0, <2>3
    <3> QED
      BY <2>1, <3>1, <3>2 DEF WakeupOf
  <2> QED
    BY <2>2, <2>3
<1> QED
  BY <1>0, <1>5, <1>6, <1>7, WakeupsKept

\* sema_down (), called as such, by lock_acquire () or by cond_wait ().
LEMMA DownKeeps ==
  ASSUME SInv, current \in Worker, DownTurn
  PROVE  SemaInv'
<1>0. /\ OpInv /\ LockInv /\ value \in [Sema -> Nat]
      /\ \A t \in Worker : t \notin Lock /\ t \notin Counting
      /\ \A t \in Counting : t \notin Lock
      /\ Worker \subseteq Sema /\ Lock \subseteq Sema /\ Counting \subseteq Sema
  BY SynchAssumption DEF SInv, SemaInv, Sema
<1>1. ASSUME NEW s \in Counting, NEW q, q = <<<<"down", s>>>>, op[current] \in {<<>>, q},
             Down(s, Tail(q))
      PROVE  SemaInv'
  <2>1. /\ Reads(q, {s}, {}, {}, {}, {}, {}) /\ Reads(<<>>, {}, {}, {}, {}, {}, {})
        /\ Tail(q) = <<>> /\ <<<<"down", s>>>> \o Tail(q) = q /\ StartsWith(q, <<"down", s>>)
        /\ OpShape(current, q) /\ OpShape(current, <<>>) /\ s \in Sema
    <3>1. Reads(q, {s}, {}, {}, {}, {}, {}) /\ Reads(<<>>, {}, {}, {}, {}, {}, {})
      BY <1>1, ReadSema, ReadFree, Zenon
    <3>2. Tail(q) = <<>> /\ StartsWith(q, <<"down", s>>)
      BY <1>1, OneStep DEF StartsWith
    <3>3. <<<<"down", s>>>> \o <<>> = <<<<"down", s>>>>
      OBVIOUS
    <3>4. OpShape(current, q) /\ OpShape(current, <<>>)
      BY <1>1 DEF OpShape
    <3> QED
      BY <1>0, <1>1, <3>1, <3>2, <3>3, <3>4, Zenon
  <2>2. PICK d \in {{}, {s}} : Reads(op[current], d, {}, {}, {}, {}, {})
    BY <1>1, <2>1
  <2>3. CASE value[s] = 0
    <3>1. /\ Enqueues(s) /\ thread_block /\ Then(q)
          /\ value' = value /\ holder' = holder /\ cond_waiters' = cond_waiters
      BY <1>1, <2>1, <2>3, DownBlocks, Zenon
    <3>2. d \subseteq {s} /\ \A k \in Lock : k \in {} => (holder[k] = current <=> k \in {})
      OBVIOUS
    <3> QED
      <4>1. PICK N, H : N = {} /\ H = {}
        BY Zenon
      <4>2. /\ Reads(op[current], d, {}, N, N, {}, N) /\ Reads(q, {s}, {}, H, N, {}, N)
            /\ \A k \in Lock : k \in H => (holder[k] = current <=> k \in N)
        BY <2>1, <2>2, <3>2, <4>1, Zenon
      <4> QED
        BY <2>1, <2>3, <3>1, <3>2, <4>2, BlockKeeps, Zenon
  <2>4. CASE value[s] # 0
    <3>1. /\ value[s] > 0 /\ value' = [value EXCEPT ![s] = value[s] - 1] /\ Then(<<>>)
          /\ UNCHANGED <<vars, waiters>> /\ holder' = holder /\ cond_waiters' = cond_waiters
      BY <1>1, <2>1, <2>4, Zenon DEF Down
    <3>2. /\ \A k \in Lock : value'[k] = value[k]
          /\ \A t \in Worker : value'[t] = value[t]
          /\ \A k \in Lock : k \in {} => (holder[k] = current <=> k \in {})
          /\ d \subseteq {s}
      BY <1>0, <3>1
    <3>3. ElemInv' /\ WaitersSorted' /\ NoLostWakeup' /\ value' \in [Sema -> Nat]
      BY <2>1, <2>2, <3>1, <3>2, TakeKeepsWaiters, Zenon DEF Reads
    <3>4. OpInv'
      BY <1>0, <2>1, <3>1, OpKept, Zenon DEF Reads
    <3>5. LockInv'
      BY <2>1, <2>2, <3>1, <3>2, LockKept DEF Reads
    <3>6. CondInv'
      BY <2>1, <2>2, <3>1, <3>2, CondKept DEF Reads
    <3> QED
      BY <3>3, <3>4, <3>5, <3>6 DEF SemaInv
  <2> QED
    BY <2>3, <2>4
<1>2. ASSUME NEW s \in Lock, NEW q, q = AcquireSteps(s), op[current] \in {<<>>, q},
             holder[s] # current, Down(s, Tail(q))
      PROVE  SemaInv'
  <2>1. /\ Reads(q, {s}, {}, {s}, {}, {}, {}) /\ Reads(<<>>, {}, {}, {}, {}, {}, {})
        /\ Reads(<<<<"own", s>>>>, {}, {s}, {s}, {}, {}, {})
        /\ Tail(q) = <<<<"own", s>>>> /\ <<<<"down", s>>>> \o Tail(q) = q
        /\ StartsWith(q, <<"down", s>>)
        /\ OpShape(current, q) /\ OpShape(current, <<<<"own", s>>>>) /\ s \in Sema
    <3>1. /\ Reads(q, {s}, {}, {s}, {}, {}, {}) /\ Reads(<<>>, {}, {}, {}, {}, {}, {})
          /\ Reads(<<<<"own", s>>>>, {}, {s}, {s}, {}, {}, {})
      BY <1>2, ReadLock, ReadFree, Zenon
    <3>2. Tail(q) = <<<<"own", s>>>> /\ StartsWith(q, <<"down", s>>)
      BY <1>2, AcquireIs DEF StartsWith
    <3>3. <<<<"down", s>>>> \o <<<<"own", s>>>> = q
      BY <1>2, JoinOneOne DEF AcquireSteps
    <3>4. OpShape(current, q) /\ OpShape(current, <<<<"own", s>>>>)
      BY <1>2 DEF OpShape
    <3> QED
      BY <1>0, <1>2, <3>1, <3>2, <3>3, <3>4, Zenon
  <2>2. PICK d \in {{}, {s}}, h \in {{}, {s}} : Reads(op[current], d, {}, h, {}, {}, {})
    BY <1>2, <2>1
  <2>3. CASE value[s] = 0
    <3>1. /\ Enqueues(s) /\ thread_block /\ Then(q)
          /\ value' = value /\ holder' = holder /\ cond_waiters' = cond_waiters
      BY <1>2, <2>1, <2>3, DownBlocks, Zenon
    <3>2. d \subseteq {s} /\ \A k \in Lock : k \in {s} => (holder[k] = current <=> k \in {})
      BY <1>2
    <3> QED
      <4>1. PICK N, H : N = {} /\ H = {s}
        BY Zenon
      <4>2. /\ Reads(op[current], d, {}, h, N, {}, N) /\ Reads(q, {s}, {}, H, N, {}, N)
            /\ \A k \in Lock : k \in H => (holder[k] = current <=> k \in N)
        BY <2>1, <2>2, <3>2, <4>1, Zenon
      <4> QED
        BY <2>1, <2>3, <3>1, <3>2, <4>2, BlockKeeps, Zenon
  <2>4. CASE value[s] # 0
    <3>1. /\ value[s] > 0 /\ value' = [value EXCEPT ![s] = value[s] - 1]
          /\ Then(<<<<"own", s>>>>) /\ UNCHANGED <<vars, waiters>>
          /\ holder' = holder /\ cond_waiters' = cond_waiters
      BY <1>2, <2>1, <2>4, Zenon DEF Down
    <3>2. (\A t \in Worker : value'[t] = value[t]) /\ d \subseteq {s}
      BY <1>0, <3>1
    <3>3. ElemInv' /\ WaitersSorted' /\ NoLostWakeup' /\ value' \in [Sema -> Nat]
      BY <2>1, <2>2, <3>1, <3>2, TakeKeepsWaiters, Zenon DEF Reads
    <3>4. OpInv'
      BY <1>0, <2>1, <3>1, OpKept, Zenon DEF Reads
    <3>5. LockInv'
      BY <1>2, <2>1, <2>2, <3>1, LockTaken, Zenon DEF Reads
    <3>6. CondInv'
      BY <2>1, <2>2, <3>1, <3>2, CondKept, Zenon DEF Reads
    <3> QED
      BY <3>3, <3>4, <3>5, <3>6 DEF SemaInv
  <2> QED
    BY <2>3, <2>4
<1>3. ASSUME NEW k \in Lock, NEW q, q = WaitDown(current, k), op[current] = q,
             Down(current, Tail(q))
      PROVE  SemaInv'
  <2> DEFINE s == current
  <2>1. /\ Reads(q, {s}, {}, {k}, {}, {}, {s})
        /\ Reads(AcquireSteps(k), {k}, {}, {k}, {}, {}, {})
        /\ Tail(q) = AcquireSteps(k) /\ <<<<"down", s>>>> \o Tail(q) = q
        /\ StartsWith(q, <<"down", s>>)
        /\ OpShape(current, q) /\ OpShape(current, AcquireSteps(k)) /\ s \in Sema
    <3>1. Reads(q, {s}, {}, {k}, {}, {}, {s}) /\ Reads(AcquireSteps(k), {k}, {}, {k}, {}, {}, {})
      BY <1>3, ReadWait, ReadLock, Zenon
    <3>2. Tail(q) = AcquireSteps(k) /\ StartsWith(q, <<"down", s>>)
      BY <1>3, WaitSteps DEF StartsWith
    <3>3. <<<<"down", s>>>> \o AcquireSteps(k) = q
      BY <1>3, JoinOneTwo DEF AcquireSteps, WaitDown
    <3>4. OpShape(current, q) /\ OpShape(current, AcquireSteps(k))
      BY <1>3 DEF OpShape
    <3> QED
      BY <1>0, <1>3, <3>1, <3>2, <3>3, <3>4
  <2>2. \A j \in Lock : j \in {k} => (holder[j] = current <=> j \in {})
    BY <1>0, <1>3, <2>1, Zenon DEF LockInv, Handles, Reads, ReadsLock
  <2>3. CASE value[s] = 0
    <3>1. /\ Enqueues(s) /\ thread_block /\ Then(q)
          /\ value' = value /\ holder' = holder /\ cond_waiters' = cond_waiters
      BY <1>3, <2>1, <2>3, DownBlocks, Zenon
    <3>2. PICK e, d, h : e = {} /\ d = {s} /\ h = {k}
      BY Zenon
    <3>3. /\ Reads(op[current], d, {}, h, e, {}, d) /\ Reads(q, {s}, {}, h, e, {}, d)
          /\ d \subseteq {s}
          /\ \A j \in Lock : j \in h => (holder[j] = current <=> j \in e)
      BY <1>3, <2>1, <2>2, <3>2, Zenon
    <3> QED
      BY <2>1, <2>3, <3>1, <3>3, BlockKeeps, Zenon
  <2>4. CASE value[s] # 0
    <3>1. /\ value[s] > 0 /\ value' = [value EXCEPT ![s] = value[s] - 1]
          /\ Then(AcquireSteps(k)) /\ UNCHANGED <<vars, waiters>>
          /\ holder' = holder /\ cond_waiters' = cond_waiters
      BY <1>3, <2>1, <2>4, Zenon DEF Down
    <3>2. \A j \in Lock : value'[j] = value[j]
      BY <1>0, <3>1
    <3>3. ElemInv' /\ WaitersSorted' /\ NoLostWakeup' /\ value' \in [Sema -> Nat]
      BY <1>3, <2>1, <3>1, TakeKeepsWaiters, Zenon DEF Reads
    <3>4. OpInv'
      BY <1>0, <2>1, <3>1, OpKept DEF Reads
    <3>5. LockInv'
      <4>1. PICK e, h : e = {} /\ h = {k}
        BY Zenon
      <4>2. /\ ReadsLock(op[current], e, h, e) /\ ReadsLock(AcquireSteps(k), e, h, e)
            /\ \A j \in Lock : j \in h => (holder[j] = current <=> j \in e)
        BY <1>3, <2>1, <2>2, <4>1, Zenon DEF Reads
      <4> QED
        BY <3>1, <3>2, <4>2, LockKept
    <3>6. CondInv'
      BY <1>3, <2>1, <3>1, SignalSeen, Zenon DEF Reads
    <3> QED
      BY <3>3, <3>4, <3>5, <3>6 DEF SemaInv
  <2> QED
    BY <2>3, <2>4
<1>4. PICK s \in Sema : \E q : DownKind(s, q) /\ Down(s, Tail(q))
  BY DEF DownTurn
<1>5. PICK q : DownKind(s, q) /\ Down(s, Tail(q))
  BY <1>4
<1> QED
  BY <1>1, <1>2, <1>3, <1>5 DEF DownKind

-----------------------------------------------------------------------------
(* sema_up ().                                                             *)

\* What it does to the lists of waiters, in a thread or in a handler: nobody
\* who is in sema_down () moves on by itself.
LEMMA UpKeepsWaiters ==
  ASSUME SInv, NEW s \in Sema, PopWaiter(s), priority' = priority, Sleep_list' = Sleep_list,
         IF waiters[s] = <<>> THEN status' = status ELSE Unblock(Head(waiters[s]), priority),
         \A t \in Worker : \A r \in Sema : AtStep(t, <<"down", r>>) => op'[t] = op[t]
  PROVE  ElemInv' /\ WaitersSorted' /\ NoLostWakeup' /\ value' \in [Sema -> Nat]
<1>0. /\ ElemInv /\ NoLostWakeup /\ value \in [Sema -> Nat]
      /\ priority \in [Thread -> Priority] /\ waiters \in [Sema -> Seq(Worker)]
  BY Zenon DEF SInv, SemaInv, IInv, RunInv, ElemInv
<1>1. \A t \in Worker : Unblockable(t) => op'[t] = op[t]
  BY <1>0, Zenon DEF ElemInv
<1>2. /\ value' \in [Sema -> Nat] /\ value'[s] = value[s] + 1
      /\ \A r \in Sema : r # s => value'[r] = value[r] /\ waiters'[r] = waiters[r]
  BY <1>0 DEF PopWaiter
<1>3. CASE waiters[s] = <<>>
  <2>1. waiters' = waiters
    BY <1>0, <1>3, NobodyToWake
  <2>2. \A t \in Worker : Unblockable(t)' <=> Unblockable(t)
    BY <1>3 DEF Unblockable
  <2>3. ElemInv' /\ WaitersSorted'
    BY <1>0, <1>1, <2>1, <2>2, WaitersKept
  <2>4. ASSUME NEW r \in Sema PROVE WakeupOf(r)
    <3>1. Retesting(r) \subseteq Retesting(r)'
      BY <2>1, Zenon DEF Retesting, AtStep
    <3> QED
      BY <1>2, <1>3, <2>1, <3>1 DEF WakeupOf
  <2> QED
    BY <1>0, <1>2, <2>3, <2>4, WakeupsKept
<1>4. CASE waiters[s] # <<>>
  <2>1. ElemInv' /\ WaitersSorted'
    BY <1>1, <1>4, WaitersShrink
  <2> DEFINE h == Head(waiters[s])
  <2>2. /\ h \in ToSet(waiters[s]) /\ h \in Worker /\ AtStep(h, <<"down", s>>)
        /\ h \notin ToSet(Tail(waiters[s]))
        /\ ToSet(Tail(waiters[s])) \subseteq ToSet(waiters[s])
    BY <1>0, <1>4, PopFront DEF ElemInv
  <2>3. waiters'[s] = Tail(waiters[s])
    BY <1>0, <1>4 DEF PopWaiter
  <2> HIDE DEF h
  <2>4. ASSUME NEW r \in Sema PROVE WakeupOf(r)
    <3>1. CASE r = s
      <4>1. h \notin Retesting(r)
        BY <2>2, <3>1, Zenon DEF Retesting
      <4>2. Retesting(r) \cup {h} \subseteq Retesting(r)'
        <5>1. ASSUME NEW t \in Retesting(r) PROVE t \in Retesting(r)'
          BY <2>2, <2>3, <3>1, Zenon DEF Retesting, AtStep
        <5>2. h \in Retesting(r)'
          BY <2>2, <2>3, <3>1 DEF Retesting, AtStep
        <5> QED
          BY <5>1, <5>2, Zenon
      <4>3. \E x : x \notin Retesting(r) /\ Retesting(r) \cup {x} \subseteq Retesting(r)'
        BY <4>1, <4>2, Zenon
      <4> QED
        BY <1>2, <1>4, <3>1, <4>3, Zenon DEF WakeupOf
    <3>2. CASE r # s
      <4>1. Retesting(r) \subseteq Retesting(r)'
        BY <1>2, <3>2, Zenon DEF Retesting, AtStep
      <4> QED
        BY <1>2, <3>2, <4>1, Zenon DEF WakeupOf
    <3> QED
      BY <3>1, <3>2, Zenon
  <2> QED
    BY <1>0, <1>2, <2>1, <2>4, WakeupsKept
<1> QED
  BY <1>3, <1>4, Zenon

\* sema_up (), called as such, by lock_release () or by cond_signal ().
LEMMA UpKeeps ==
  ASSUME SInv, current \in Worker, UpTurn
  PROVE  SemaInv'
<1>0. /\ OpInv /\ LockInv /\ value \in [Sema -> Nat]
      /\ \A t \in Worker : t \notin Lock /\ t \notin Counting
      /\ \A t \in Counting : t \notin Lock
      /\ Worker \subseteq Sema /\ Lock \subseteq Sema /\ Counting \subseteq Sema
  BY SynchAssumption DEF SInv, SemaInv, Sema
<1>1. ASSUME NEW s \in Sema, NEW q, Up(s, q), q \in Seq(Steps), OpShape(current, q),
             ReadsDown(op[current], {})
      PROVE  /\ ElemInv' /\ WaitersSorted' /\ NoLostWakeup' /\ value' \in [Sema -> Nat]
             /\ OpInv' /\ Then(q) /\ holder' = holder /\ cond_waiters' = cond_waiters
             /\ value' = [value EXCEPT ![s] = value[s] + 1]
             /\ \A r \in Sema : r # s => value'[r] = value[r]
  <2>1. /\ PopWaiter(s) /\ priority' = priority /\ Sleep_list' = Sleep_list
        /\ IF waiters[s] = <<>> THEN status' = status ELSE Unblock(Head(waiters[s]), priority)
        /\ Then(q) /\ holder' = holder /\ cond_waiters' = cond_waiters
    BY <1>1, Zenon DEF Up, thread_unblock, runVars, sleepVars
  <2>2. \A t \in Worker : \A r \in Sema : AtStep(t, <<"down", r>>) => op'[t] = op[t]
    BY <1>0, <1>1, <2>1, OpAfter, Zenon DEF AtStep, ReadsDown, StartsWith
  <2>3. ElemInv' /\ WaitersSorted' /\ NoLostWakeup' /\ value' \in [Sema -> Nat]
    BY <2>1, <2>2, UpKeepsWaiters
  <2>4. OpInv'
    BY <1>0, <1>1, <2>1, OpKept, Zenon
  <2>5. value' = [value EXCEPT ![s] = value[s] + 1]
    BY <2>1 DEF PopWaiter
  <2> QED
    BY <1>0, <2>1, <2>3, <2>4, <2>5, Zenon
<1>2. ASSUME NEW s \in Counting, op[current] = <<>>, Up(s, <<>>) PROVE SemaInv'
  <2>1. Reads(<<>>, {}, {}, {}, {}, {}, {}) /\ OpShape(current, <<>>)
    BY ReadFree DEF OpShape
  <2>2. /\ ElemInv' /\ WaitersSorted' /\ NoLostWakeup' /\ value' \in [Sema -> Nat]
        /\ OpInv' /\ Then(<<>>) /\ holder' = holder /\ cond_waiters' = cond_waiters
        /\ \A r \in Sema : r # s => value'[r] = value[r]
    BY <1>0, <1>1, <1>2, <2>1, Zenon DEF Reads
  <2>3. LockInv'
    <3>1. /\ \A k \in Lock : value'[k] = value[k]
          /\ \A k \in Lock : k \in {} => (holder[k] = current <=> k \in {})
      BY <1>0, <2>2
    <3>2. PICK e : e = {}
      BY Zenon
    <3>3. /\ ReadsLock(op[current], e, e, e) /\ ReadsLock(<<>>, e, e, e)
          /\ \A k \in Lock : k \in e => (holder[k] = current <=> k \in e)
      BY <1>2, <2>1, <3>2 DEF Reads
    <3> QED
      BY <2>2, <3>1, <3>3, LockKept, Zenon
  <2>4. CondInv'
    <3>1. \A t \in Worker : value'[t] = value[t]
      BY <1>0, <2>2
    <3> QED
      BY <1>2, <2>1, <2>2, <3>1, CondKept, Zenon DEF Reads
  <2> QED
    BY <2>2, <2>3, <2>4 DEF SemaInv
<1>3. ASSUME NEW s \in Lock, NEW q, Up(s, q), OpShape(current, q), NEW d, NEW g, NEW waits,
             g \subseteq {s}, Reads(op[current], {}, {s}, {s}, {}, {}, waits),
             Reads(q, d, {}, g, {}, {}, waits)
      PROVE  SemaInv'
  <2>1. /\ ElemInv' /\ WaitersSorted' /\ NoLostWakeup' /\ value' \in [Sema -> Nat]
        /\ OpInv' /\ Then(q) /\ holder' = holder /\ cond_waiters' = cond_waiters
        /\ value' = [value EXCEPT ![s] = value[s] + 1]
        /\ \A r \in Sema : r # s => value'[r] = value[r]
    BY <1>0, <1>1, <1>3 DEF Reads
  <2>2. LockInv'
    BY <1>3, <2>1, LockGivenUp, Zenon DEF Reads
  <2>3. CondInv'
    <3>1. \A t \in Worker : value'[t] = value[t]
      BY <1>0, <2>1
    <3> QED
      BY <1>3, <2>1, <3>1, CondKept DEF Reads
  <2> QED
    BY <2>1, <2>2, <2>3 DEF SemaInv
<1>4. ASSUME NEW s \in Worker, NEW q, Up(s, q), OpShape(current, q),
             Reads(op[current], {}, {}, {}, {}, {s}, {}), Reads(q, {}, {}, {}, {}, {}, {})
      PROVE  SemaInv'
  <2>1. /\ ElemInv' /\ WaitersSorted' /\ NoLostWakeup' /\ value' \in [Sema -> Nat]
        /\ OpInv' /\ Then(q) /\ holder' = holder /\ cond_waiters' = cond_waiters
        /\ value' = [value EXCEPT ![s] = value[s] + 1]
        /\ \A r \in Sema : r # s => value'[r] = value[r]
    BY <1>0, <1>1, <1>4 DEF Reads
  <2>2. LockInv'
    <3>1. /\ \A k \in Lock : value'[k] = value[k]
          /\ \A k \in Lock : k \in {} => (holder[k] = current <=> k \in {})
      BY <1>0, <2>1, Zenon
    <3> QED
      <4>1. PICK e : e = {}
        BY Zenon
      <4>2. /\ ReadsLock(op[current], e, e, e) /\ ReadsLock(q, e, e, e)
            /\ \A k \in Lock : k \in e => (holder[k] = current <=> k \in e)
        BY <1>4, <4>1, Zenon DEF Reads
      <4> QED
        BY <2>1, <3>1, <4>2, LockKept, Zenon
  <2>3. CondInv'
    BY <1>4, <2>1, SignalGiven, Zenon DEF Reads
  <2> QED
    BY <2>1, <2>2, <2>3 DEF SemaInv
<1>5. PICK s \in Sema : \E q : UpKind(s, q) /\ Up(s, Tail(q))
  BY DEF UpTurn
<1>6. PICK q : UpKind(s, q) /\ Up(s, Tail(q))
  BY <1>5
<1>7. CASE s \in Counting /\ q = <<<<"up", s>>>> /\ op[current] = <<>>
  BY <1>2, <1>6, <1>7, OneStep
<1>8. CASE s \in Lock /\ q = <<<<"up", s>>>> /\ op[current] = q
  <2>1. Up(s, <<>>) /\ OpShape(current, <<>>)
    BY <1>6, <1>8, OneStep, Zenon DEF OpShape
  <2>2. Reads(op[current], {}, {s}, {s}, {}, {}, {}) /\ Reads(<<>>, {}, {}, {}, {}, {}, {})
    BY <1>8, ReadLock, ReadFree, Zenon
  <2>3. PICK e : e = {}
    BY Zenon
  <2>4. /\ e \subseteq {s} /\ Reads(op[current], {}, {s}, {s}, {}, {}, e)
        /\ Reads(<<>>, e, {}, e, {}, {}, e)
    BY <2>2, <2>3
  <2> QED
    BY <1>3, <1>8, <2>1, <2>4, Zenon
<1>9. CASE s \in Lock /\ q = WaitUp(current, s) /\ op[current] = q
  <2>0. Tail(q) = WaitDown(current, s)
    BY <1>9, WaitSteps
  <2>1. Up(s, WaitDown(current, s)) /\ OpShape(current, WaitDown(current, s))
    BY <1>6, <1>9, <2>0, Zenon DEF OpShape
  <2>2. /\ Reads(op[current], {}, {s}, {s}, {}, {}, {current})
        /\ Reads(WaitDown(current, s), {current}, {}, {s}, {}, {}, {current})
    BY <1>9, ReadWait
  <2> QED
    BY <1>3, <1>9, <2>1, <2>2
<1>10. CASE s \in Worker /\ q = <<<<"up", s>>>> /\ op[current] = q
  <2>1. Up(s, <<>>) /\ OpShape(current, <<>>)
    BY <1>6, <1>10, OneStep DEF OpShape
  <2>2. Reads(<<<<"up", s>>>>, {}, {}, {}, {}, {s}, {}) /\ Reads(<<>>, {}, {}, {}, {}, {}, {})
    BY <1>10, ReadFree, ReadWake, Zenon
  <2> QED
    BY <1>4, <1>10, <2>1, <2>2, Zenon
<1>11. ASSUME NEW c \in Cond, s \in Worker, op[current] = q,
              q = <<<<"up", s>>, <<"broadcast", c>>>>
       PROVE  SemaInv'
  <2>1. Tail(q) = <<<<"broadcast", c>>>>
    BY <1>11, TwoSteps
  <2>2. Up(s, <<<<"broadcast", c>>>>) /\ OpShape(current, <<<<"broadcast", c>>>>)
    BY <1>6, <2>1, Zenon DEF OpShape
  <2>3. /\ Reads(op[current], {}, {}, {}, {}, {s}, {})
        /\ Reads(<<<<"broadcast", c>>>>, {}, {}, {}, {}, {}, {})
    BY <1>11, ReadSignal, Zenon
  <2> QED
    BY <1>4, <1>11, <2>2, <2>3, Zenon
<1> QED
  BY <1>6, <1>7, <1>8, <1>9, <1>10, <1>11, Zenon DEF UpKind

\* Steps outside the calls of synch.c leave what is read off op as it is.
LEMMA ReadOffKept ==
  ASSUME OpInv, LockInv, CondInv, op' = op, holder' = holder, cond_waiters' = cond_waiters,
         \A k \in Lock : value'[k] = value[k], \A t \in Worker : value'[t] = value[t]
  PROVE  OpInv' /\ LockInv' /\ CondInv'
<1>1. OpInv'
  BY DEF OpInv, OpShape
<1>2. LockInv'
  <2>1. ASSUME NEW t \in Worker, NEW k \in Lock
        PROVE  (IsOwner(t, k)' <=> IsOwner(t, k)) /\ (Handles(t, k)' <=> Handles(t, k))
    BY DEF IsOwner, Handles, AtStep
  <2>2. ASSUME NEW k \in Lock
        PROVE  \/ value'[k] = 1 /\ \A t \in Worker : ~IsOwner(t, k)'
               \/ /\ value'[k] = 0
                  /\ \E t \in Worker : IsOwner(t, k)' /\ \A u \in Worker \ {t} : ~IsOwner(u, k)'
    BY <2>1, Zenon DEF LockInv
  <2> QED
    BY <2>1, <2>2, Zenon DEF LockInv
<1>3. CondInv'
  <2>1. ASSUME NEW t \in Worker PROVE SignalOf(t)'
    BY Zenon DEF CondInv, SignalOf, InWait, NotListed, NotWoken, Listed, Wakes
  <2> QED
    BY <2>1 DEF CondInv
<1> QED
  BY <1>1, <1>2, <1>3

\* A handler's sema_up () on a counting semaphore.
LEMMA IntrKeeps ==
  ASSUME SInv, NEW s \in Counting, IntrSemaUp(s)
  PROVE  SemaInv'
<1>0. /\ OpInv /\ LockInv /\ CondInv /\ value \in [Sema -> Nat] /\ s \in Sema
      /\ s \notin Lock /\ s \notin Worker /\ Worker \subseteq Sema /\ Lock \subseteq Sema
  BY SynchAssumption DEF SInv, SemaInv, Sema
<1>1. /\ PopWaiter(s) /\ priority' = priority /\ Sleep_list' = Sleep_list
      /\ IF waiters[s] = <<>> THEN status' = status ELSE Unblock(Head(waiters[s]), priority)
      /\ op' = op /\ holder' = holder /\ cond_waiters' = cond_waiters
  BY Zenon DEF IntrSemaUp, DeviceInterrupt, DeviceInterruptNoWaiter, runVars, sleepVars
<1>2. ElemInv' /\ WaitersSorted' /\ NoLostWakeup' /\ value' \in [Sema -> Nat]
  BY <1>0, <1>1, UpKeepsWaiters, Zenon
<1>3. /\ \A k \in Lock : value'[k] = value[k]
      /\ \A t \in Worker : value'[t] = value[t]
  BY <1>0, <1>1 DEF PopWaiter
<1>4. OpInv' /\ LockInv' /\ CondInv'
  BY <1>0, <1>1, <1>3, ReadOffKept
<1> QED
  BY <1>2, <1>4 DEF SemaInv

\* Steps of the scheduler.
LEMMA OtherKeeps ==
  ASSUME SInv, OtherCall \/ SchedulerStep, IInv'
  PROVE  SemaInv'
<1>0. /\ OpInv /\ LockInv /\ CondInv /\ value \in [Sema -> Nat] /\ NoLostWakeup /\ IInv
      /\ priority' \in [Thread -> Priority]
  BY DEF SInv, SemaInv, IInv, RunInv
<1>1. /\ value' = value /\ waiters' = waiters /\ holder' = holder
      /\ cond_waiters' = cond_waiters /\ op' = op
  BY DEF OtherCall, SchedulerStep, synchVars
<1>2. ElemInv' /\ WaitersSorted'
  BY <1>0, <1>1, OtherEffect, WaitersKept
<1>3. NoLostWakeup'
  BY <1>0, <1>1, Zenon DEF NoLostWakeup, Retesting, AtStep
<1>4. OpInv' /\ LockInv' /\ CondInv'
  BY <1>0, <1>1, ReadOffKept
<1> QED
  BY <1>0, <1>1, <1>2, <1>3, <1>4 DEF SemaInv

-----------------------------------------------------------------------------
(* The invariant, and what it means.                                       *)

\* The invariant holds at the start ...
LEMMA InitSInv == SynchInit => SInv
<1> SUFFICES ASSUME SynchInit PROVE SInv
  OBVIOUS
<1>0. /\ \A t \in Worker : t \notin Lock /\ t # NULL
      /\ Worker \subseteq Sema /\ Lock \subseteq Sema
  BY SynchAssumption DEF Sema
<1>1. /\ value = [s \in Sema |-> IF s \in Lock THEN 1 ELSE 0]
      /\ waiters = [s \in Sema |-> <<>>] /\ holder = [k \in Lock |-> NULL]
      /\ cond_waiters = [c \in Cond |-> <<>>] /\ op = [t \in Worker |-> <<>>]
  BY DEF SynchInit
<1>2. ToSet(<<>>) = {} /\ NoRepeats(<<>>)
  BY DEF ToSet, NoRepeats
<1>3. IInv
  BY InitIInv DEF SynchInit
<1>4. value \in [Sema -> Nat]
  BY <1>1
<1>5. OpInv
  BY <1>1 DEF OpInv, OpShape
<1>6. ElemInv /\ NoLostWakeup
  <2>1. \A t \in Worker : ~Unblockable(t)
    <3>1. ASSUME NEW t \in Worker PROVE status[t] \in {"RUNNING", "READY", "FREE"}
      BY DEF SynchInit, Init, Thread
    <3> QED
      BY <3>1 DEF Unblockable
  <2> QED
    BY <1>1, <1>2, <2>1 DEF ElemInv, NoLostWakeup
<1>7. WaitersSorted
  BY <1>1 DEF WaitersSorted, IsOrdered
<1>8. LockInv
  <2>1. \A t \in Worker, k \in Lock : ~IsOwner(t, k) /\ ~Handles(t, k)
    BY <1>0, <1>1, <1>2 DEF IsOwner, Handles, AtStep
  <2> QED
    BY <1>0, <1>1, <2>1 DEF LockInv
<1>9. CondInv
  <2>1. ASSUME NEW t \in Worker PROVE SignalOf(t)
    BY <1>0, <1>1, <1>2 DEF SignalOf, InWait, NotListed, NotWoken, Listed, Wakes
  <2> QED
    BY <1>1, <1>2, <2>1 DEF CondInv
<1> QED
  BY <1>3, <1>4, <1>5, <1>6, <1>7, <1>8, <1>9 DEF SInv, SemaInv

\* ... and every step keeps it.
LEMMA NextSInv ==
  ASSUME SInv, [SynchNext]_allVars
  PROVE  SInv'
<1>1. IInv'
  BY SynchStepIsThreadStep
<1>2. CASE UNCHANGED allVars
  <2>1. /\ value' = value /\ waiters' = waiters /\ holder' = holder
        /\ cond_waiters' = cond_waiters /\ op' = op /\ priority' = priority
        /\ status' = status /\ Sleep_list' = Sleep_list
    BY <1>2 DEF allVars, synchVars, vars, runVars, sleepVars
  <2>2. OpInv' /\ LockInv' /\ CondInv'
    BY <2>1, ReadOffKept DEF SInv, SemaInv
  <2>3. ElemInv' /\ WaitersSorted'
    BY <2>1, WaitersKept DEF Unblockable, SInv, IInv, RunInv
  <2>4. NoLostWakeup'
    BY <2>1, Zenon DEF SInv, SemaInv, NoLostWakeup, Retesting, AtStep
  <2> QED
    BY <1>1, <2>1, <2>2, <2>3, <2>4 DEF SInv, SemaInv
<1>3. CASE Turn
  BY <1>1, <1>3, DownKeeps, UpKeeps, OwnKeeps, DisownKeeps, WaitKeeps, SignalKeeps
     DEF Turn, SInv
<1>4. ASSUME NEW s \in Counting, IntrSemaUp(s) PROVE SInv'
  BY <1>1, <1>4, IntrKeeps DEF SInv
<1>5. CASE OtherCall \/ SchedulerStep
  BY <1>1, <1>5, OtherKeeps DEF SInv
<1> QED
  BY <1>2, <1>3, <1>4, <1>5, CallIsTurn DEF SynchNext

\* The invariant of semaphores, locks and condition variables holds in every
\* reachable state.
THEOREM SynchInvariance == SynchSpec => []SInv
<1>1. SInv /\ [SynchNext]_allVars => SInv'
  BY NextSInv
<1> QED
  BY <1>1, InitSInv, PTL DEF SynchSpec

\* synch.c keeps to the interface of thread.c: each of its steps is a step of
\* the scheduler or leaves it alone, so thread_unblock () is only called for
\* blocked threads that are not asleep.
THEOREM SynchRefinesThread == SynchSpec => ImplementsThread
<1>1. SynchInit => Init
  BY DEF SynchInit
<1>2. SInv /\ [SynchNext]_allVars => [Next]_vars
  BY SynchStepIsThreadStep
<1> QED
  BY <1>1, <1>2, SynchInvariance, PTL DEF SynchSpec, ImplementsThread, Spec

\* A unit of a semaphore for which a thread was woken is never lost.
THEOREM NeverLostWakeup == SynchSpec => []NoLostWakeup
<1>1. SInv => NoLostWakeup
  BY DEF SInv, SemaInv
<1> QED
  BY <1>1, SynchInvariance, PTL

\* The lists of waiters are well formed: a blocked thread is on one list, once,
\* the list of the semaphore it is in sema_down () of, and each list is in
\* order of priority.
THEOREM WaiterListsAlways == SynchSpec => []WaiterLists
<1>1. SInv => WaiterLists
  <2> SUFFICES ASSUME SInv PROVE WaiterLists
    OBVIOUS
  <2>0. IInv /\ ElemInv /\ WaitersSorted /\ OpInv
    BY DEF SInv, SemaInv
  <2>1. SynchTypeOK
    BY DEF SInv, SemaInv, SynchTypeOK, ElemInv, LockInv, CondInv, OpInv
  <2>2. ASSUME NEW t \in Worker
        PROVE  LET on == {s \in Sema : t \in ToSet(waiters[s])}
               IN  /\ \A s \in on : on = {s} /\ AtStep(t, <<"down", s>>)
                   /\ status[t] = "BLOCKED" <=> t \in ToSet(Sleep_list) \/ on # {}
                   /\ t \in ToSet(Sleep_list) => on = {}
    <3> DEFINE on == {s \in Sema : t \in ToSet(waiters[s])}
    <3>1. ASSUME NEW s \in on PROVE AtStep(t, <<"down", s>>) /\ Unblockable(t)
      BY <2>0 DEF ElemInv
    <3>2. ASSUME NEW s \in on, NEW r \in on PROVE r = s
      BY <3>1 DEF AtStep
    <3>3. Unblockable(t) => on # {}
      BY <2>0 DEF ElemInv
    <3>4. t \in ToSet(Sleep_list) => status[t] = "BLOCKED"
      BY <2>0 DEF IInv, SleepInv
    <3> QED
      BY <3>1, <3>2, <3>3, <3>4, Zenon DEF Unblockable
  <2>3. ElemExclusive
    BY <2>0, <2>2, Zenon DEF ElemExclusive, ElemInv
  <2> QED
    BY <2>0, <2>1, <2>3 DEF WaiterLists
<1> QED
  BY <1>1, SynchInvariance, PTL

\* Mutual exclusion: the semaphore of a lock is 1 when nobody is between the
\* two ends of lock_acquire () and lock_release (), and 0 while exactly one
\* thread is.
THEOREM LockExclusionAlways == SynchSpec => []LockExclusion
<1>1. SInv => LockExclusion
  <2> SUFFICES ASSUME SInv, NEW k \in Lock PROVE value[k] + Cardinality(Owners(k)) = 1
    BY DEF LockExclusion
  <2>0. Owners(k) = {t \in Worker : IsOwner(t, k)}
    BY DEF Owners, IsOwner
  <2>1. CASE value[k] = 1 /\ \A t \in Worker : ~IsOwner(t, k)
    <3>1. Owners(k) = {}
      BY <2>0, <2>1
    <3> QED
      BY <2>1, <3>1, FS_EmptySet
  <2>2. ASSUME value[k] = 0, NEW t \in Worker, IsOwner(t, k),
               \A u \in Worker \ {t} : ~IsOwner(u, k)
        PROVE  value[k] + Cardinality(Owners(k)) = 1
    <3>1. Owners(k) = {t}
      BY <2>0, <2>2
    <3> QED
      BY <2>2, <3>1, FS_Singleton
  <2> QED
    BY <2>1, <2>2 DEF SInv, SemaInv, LockInv
<1> QED
  BY <1>1, SynchInvariance, PTL

\* A signal is never lost, and never given to a thread that is not in
\* cond_wait ().
THEOREM SignalNeverLost == SynchSpec => []SignalNotLost
<1>1. SInv => SignalNotLost
  <2> SUFFICES ASSUME SInv, NEW t \in Worker
               PROVE  Cardinality({c \in Cond : Listed(t, c)})
                        + Cardinality({u \in Worker : Wakes(u, t)}) + value[t]
                        = IF InWait(t) THEN 1 ELSE 0
    BY Zenon DEF SignalNotLost, Listed, Wakes, InWait
  <2> DEFINE listed == {c \in Cond : Listed(t, c)}
             waking == {u \in Worker : Wakes(u, t)}
  <2>1. NotListed(t) => Cardinality(listed) = 0
    <3>1. NotListed(t) => listed = {}
      BY DEF NotListed
    <3> QED
      BY <3>1, FS_EmptySet
  <2>2. NotWoken(t) => Cardinality(waking) = 0
    <3>1. NotWoken(t) => waking = {}
      BY DEF NotWoken
    <3> QED
      BY <3>1, FS_EmptySet
  <2>3. (\E c \in Cond : Listed(t, c) /\ \A d \in Cond \ {c} : ~Listed(t, d))
          => Cardinality(listed) = 1
    <3>1. ASSUME NEW c \in Cond, Listed(t, c), \A d \in Cond \ {c} : ~Listed(t, d)
          PROVE  listed = {c}
      BY <3>1
    <3> QED
      BY <3>1, FS_Singleton
  <2>4. (\E u \in Worker : Wakes(u, t) /\ \A v \in Worker \ {u} : ~Wakes(v, t))
          => Cardinality(waking) = 1
    <3>1. ASSUME NEW u \in Worker, Wakes(u, t), \A v \in Worker \ {u} : ~Wakes(v, t)
          PROVE  waking = {u}
      BY <3>1
    <3> QED
      BY <3>1, FS_Singleton
  <2>5. SignalOf(t)
    BY DEF SInv, SemaInv, CondInv
  <2> HIDE DEF listed, waking
  <2>6. Cardinality(listed) + Cardinality(waking) + value[t] = IF InWait(t) THEN 1 ELSE 0
    BY <2>1, <2>2, <2>3, <2>4, <2>5 DEF SignalOf
  <2> QED
    BY <2>6 DEF listed, waking
<1> QED
  BY <1>1, SynchInvariance, PTL
=============================================================================

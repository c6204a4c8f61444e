--------------------------- MODULE SynchInvariant ---------------------------
(***************************************************************************)
(* The inductive invariant of semaphores, locks and condition variables,   *)
(* and how each part of it survives what a stretch of synch.c does.  The   *)
(* scheduler is the one of Thread: every step of synch.c is shown to be    *)
(* one of its steps, so that its invariant IInv holds here too.            *)
(***************************************************************************)
EXTENDS Synch, ThreadProofs

-----------------------------------------------------------------------------
(* The inductive invariant, in parts.                                      *)

\* What a thread in cond_wait () has yet to do, from its lock_release () on.
WaitDisown(t, k) == <<<<"disown", k>>, <<"up", k>>, <<"down", t>>, <<"down", k>>, <<"own", k>>>>
WaitUp(t, k)     == <<<<"up", k>>, <<"down", t>>, <<"down", k>>, <<"own", k>>>>
WaitDown(t, k)   == <<<<"down", t>>, <<"down", k>>, <<"own", k>>>>

\* Everything op[t] can be.
OpShape(t, q) ==
  \/ q = <<>>
  \/ \E s \in Counting : q = <<<<"down", s>>>>
  \/ \E k \in Lock : \/ q = AcquireSteps(k) \/ q = <<<<"own", k>>>> \/ q = <<<<"up", k>>>>
                     \/ q = WaitDisown(t, k) \/ q = WaitUp(t, k) \/ q = WaitDown(t, k)
  \/ \E u \in Worker : q = <<<<"up", u>>>>
  \/ \E u \in Worker, c \in Cond : q = <<<<"up", u>>, <<"broadcast", c>>>>
  \/ \E c \in Cond : q = <<<<"broadcast", c>>>>

OpInv == op \in [Worker -> Seq(Steps)] /\ \A t \in Worker : OpShape(t, op[t])

\* Who is on a list of waiters is blocked there, and who is blocked and not
\* asleep is on such a list.
ElemInv ==
  /\ waiters \in [Sema -> Seq(Worker)]
  /\ \A s \in Sema : NoRepeats(waiters[s])
  /\ \A s \in Sema : \A t \in ToSet(waiters[s]) : AtStep(t, <<"down", s>>) /\ Unblockable(t)
  /\ \A t \in Worker : Unblockable(t) => \E s \in Sema : t \in ToSet(waiters[s])

\* t is between the sema_down () of lock_acquire () and the sema_up () of
\* lock_release ().
IsOwner(t, k) == holder[k] = t \/ AtStep(t, <<"own", k>>) \/ AtStep(t, <<"up", k>>)

\* t is in lock_acquire (), lock_release () or cond_wait () with lock k.
Handles(t, k) == <<"own", k>> \in ToSet(op[t]) \/ <<"up", k>> \in ToSet(op[t])

\* A lock has one owner or its semaphore is 1; holder is set between the two
\* ends only.
LockInv ==
  /\ holder \in [Lock -> Worker \cup {NULL}]
  /\ \A k \in Lock :
       \/ value[k] = 1 /\ \A t \in Worker : ~IsOwner(t, k)
       \/ /\ value[k] = 0
          /\ \E t \in Worker : IsOwner(t, k) /\ \A u \in Worker \ {t} : ~IsOwner(u, k)
  /\ \A t \in Worker, k \in Lock :
       Handles(t, k) => (holder[k] = t <=> <<"disown", k>> \in ToSet(op[t]))

\* t has yet to do the sema_down () on its own semaphore; u is about to up it.
InWait(t) == <<"down", t>> \in ToSet(op[t])
Wakes(u, t) == <<"up", t>> \in ToSet(op[u])
Listed(t, c) == t \in ToSet(cond_waiters[c])

NotListed(t) == \A c \in Cond : ~Listed(t, c)
NotWoken(t)  == \A u \in Worker : ~Wakes(u, t)

\* A thread in cond_wait () is in one of three places.
SignalOf(t) ==
  \/ ~InWait(t) /\ NotListed(t) /\ NotWoken(t) /\ value[t] = 0
  \/ /\ InWait(t) /\ NotWoken(t) /\ value[t] = 0
     /\ \E c \in Cond : Listed(t, c) /\ \A d \in Cond \ {c} : ~Listed(t, d)
  \/ /\ InWait(t) /\ NotListed(t) /\ value[t] = 0
     /\ \E u \in Worker : Wakes(u, t) /\ \A v \in Worker \ {u} : ~Wakes(v, t)
  \/ InWait(t) /\ NotListed(t) /\ NotWoken(t) /\ value[t] = 1

CondInv ==
  /\ cond_waiters \in [Cond -> Seq(Worker)]
  /\ \A c \in Cond : NoRepeats(cond_waiters[c])
  /\ \A t \in Worker : SignalOf(t)

SemaInv ==
  /\ value \in [Sema -> Nat]
  /\ OpInv /\ ElemInv /\ WaitersSorted /\ LockInv /\ CondInv /\ NoLostWakeup

SInv == IInv /\ SemaInv

-----------------------------------------------------------------------------
(* Sequences of steps.                                                     *)

\* Two lists with the same elements at the same places are the same list.
LEMMA SameElements ==
  ASSUME NEW S, NEW s \in Seq(S), NEW t \in Seq(S),
         Len(s) = Len(t), \A i \in 1 .. Len(s) : s[i] = t[i]
  PROVE  s = t
OBVIOUS

\* A concatenation, given by its elements.
LEMMA ConcatIs ==
  ASSUME NEW S, NEW c \in Seq(S), NEW b \in Seq(S), NEW r \in Seq(S),
         Len(r) = Len(c) + Len(b),
         \A j \in 1 .. Len(c) : r[j] = c[j],
         \A j \in 1 .. Len(b) : r[Len(c) + j] = b[j]
  PROVE  c \o b = r
<1>1. /\ c \o b \in Seq(S) /\ Len(c \o b) = Len(c) + Len(b)
      /\ \A j \in 1 .. Len(c) + Len(b) :
           (c \o b)[j] = IF j <= Len(c) THEN c[j] ELSE b[j - Len(c)]
  BY ConcatElements
<1>2. ASSUME NEW j \in 1 .. Len(c) + Len(b) PROVE (c \o b)[j] = r[j]
  <2>1. CASE j <= Len(c)
    BY <1>1, <2>1
  <2>2. CASE ~(j <= Len(c))
    <3>1. j - Len(c) \in 1 .. Len(b) /\ Len(c) + (j - Len(c)) = j
      BY <2>2
    <3> QED
      BY <1>1, <2>2, <3>1
  <2> QED
    BY <2>1, <2>2
<1> QED
  BY <1>1, <1>2, SameElements

\* Concatenations of short sequences of steps, as Call and Down build them.
LEMMA JoinOneOne ==
  ASSUME NEW a, NEW b
  PROVE  <<a>> \o <<b>> = <<a, b>>
<1> DEFINE p == <<a>>
           q == <<b>>
           r == <<a, b>>
           S == {a, b}
<1>1. p \in Seq(S) /\ q \in Seq(S) /\ r \in Seq(S)
  OBVIOUS
<1>2. /\ Len(p) = 1 /\ Len(q) = 1 /\ Len(r) = 2
      /\ r[1] = p[1]
      /\ r[2] = q[1]
  OBVIOUS
<1> HIDE DEF p, q, r, S
<1>3. /\ Len(r) = Len(p) + Len(q)
      /\ \A j \in 1 .. Len(p) : r[j] = p[j]
      /\ \A j \in 1 .. Len(q) : r[Len(p) + j] = q[j]
  BY <1>2
<1>4. p \o q = r
  BY <1>1, <1>3, ConcatIs, Zenon
<1> QED
  BY <1>4 DEF p, q, r

\* One step and two: the sema_down () a waiter goes back to, and what follows.
LEMMA JoinOneTwo ==
  ASSUME NEW a, NEW b, NEW c
  PROVE  <<a>> \o <<b, c>> = <<a, b, c>>
<1> DEFINE p == <<a>>
           q == <<b, c>>
           r == <<a, b, c>>
           S == {a, b, c}
<1>1. p \in Seq(S) /\ q \in Seq(S) /\ r \in Seq(S)
  OBVIOUS
<1>2. /\ Len(p) = 1 /\ Len(q) = 2 /\ Len(r) = 3
      /\ r[1] = p[1]
      /\ r[2] = q[1] /\ r[3] = q[2]
  OBVIOUS
<1> HIDE DEF p, q, r, S
<1>3. /\ Len(r) = Len(p) + Len(q)
      /\ \A j \in 1 .. Len(p) : r[j] = p[j]
      /\ \A j \in 1 .. Len(q) : r[Len(p) + j] = q[j]
  BY <1>2
<1>4. p \o q = r
  BY <1>1, <1>3, ConcatIs, Zenon
<1> QED
  BY <1>4 DEF p, q, r

\* Three steps and one.
LEMMA JoinThreeOne ==
  ASSUME NEW a, NEW b, NEW c, NEW d
  PROVE  <<a, b, c>> \o <<d>> = <<a, b, c, d>>
<1> DEFINE p == <<a, b, c>>
           q == <<d>>
           r == <<a, b, c, d>>
           S == {a, b, c, d}
<1>1. p \in Seq(S) /\ q \in Seq(S) /\ r \in Seq(S)
  OBVIOUS
<1>2. /\ Len(p) = 3 /\ Len(q) = 1 /\ Len(r) = 4
      /\ r[1] = p[1] /\ r[2] = p[2] /\ r[3] = p[3]
      /\ r[4] = q[1]
  OBVIOUS
<1> HIDE DEF p, q, r, S
<1>3. /\ Len(r) = Len(p) + Len(q)
      /\ \A j \in 1 .. Len(p) : r[j] = p[j]
      /\ \A j \in 1 .. Len(q) : r[Len(p) + j] = q[j]
  BY <1>2
<1>4. p \o q = r
  BY <1>1, <1>3, ConcatIs, Zenon
<1> QED
  BY <1>4 DEF p, q, r

\* Four steps and two, the lock_acquire () that ends cond_wait ().
LEMMA JoinFourTwo ==
  ASSUME NEW a, NEW b, NEW c, NEW d, NEW e, NEW f
  PROVE  <<a, b, c, d>> \o <<e, f>> = <<a, b, c, d, e, f>>
<1> DEFINE p == <<a, b, c, d>>
           q == <<e, f>>
           r == <<a, b, c, d, e, f>>
           S == {a, b, c, d, e, f}
<1>1. p \in Seq(S) /\ q \in Seq(S) /\ r \in Seq(S)
  OBVIOUS
<1>2. /\ Len(p) = 4 /\ Len(q) = 2 /\ Len(r) = 6
      /\ r[1] = p[1] /\ r[2] = p[2] /\ r[3] = p[3] /\ r[4] = p[4]
      /\ r[5] = q[1] /\ r[6] = q[2]
  OBVIOUS
<1> HIDE DEF p, q, r, S
<1>3. /\ Len(r) = Len(p) + Len(q)
      /\ \A j \in 1 .. Len(p) : r[j] = p[j]
      /\ \A j \in 1 .. Len(q) : r[Len(p) + j] = q[j]
  BY <1>2
<1>4. p \o q = r
  BY <1>1, <1>3, ConcatIs, Zenon
<1> QED
  BY <1>4 DEF p, q, r

\* No step is left of a call that has returned.
LEMMA NoStep == ToSet(<<>>) = {}
BY DEF ToSet

\* A call with one step left: its first step, the rest, and the steps in it.
LEMMA OneStep ==
  ASSUME NEW a
  PROVE  /\ <<a>> # <<>> /\ Head(<<a>>) = a /\ Tail(<<a>>) = <<>>
         /\ ToSet(<<a>>) = {a}
BY DEF ToSet

\* The same with two.
LEMMA TwoSteps ==
  ASSUME NEW a, NEW b
  PROVE  /\ <<a, b>> # <<>> /\ Head(<<a, b>>) = a /\ Tail(<<a, b>>) = <<b>>
         /\ ToSet(<<a, b>>) = {a, b}
BY DEF ToSet

\* lock_acquire (): a sema_down (), then the holder is set.
LEMMA AcquireIs ==
  ASSUME NEW k
  PROVE  /\ AcquireSteps(k) # <<>> /\ Head(AcquireSteps(k)) = <<"down", k>>
         /\ Tail(AcquireSteps(k)) = <<<<"own", k>>>>
         /\ ToSet(AcquireSteps(k)) = {<<"down", k>>, <<"own", k>>}
BY DEF ToSet, AcquireSteps

\* cond_wait (), from the lock_release () in it to its return.
LEMMA WaitSteps ==
  ASSUME NEW t, NEW k
  PROVE  /\ WaitDisown(t, k) # <<>> /\ Head(WaitDisown(t, k)) = <<"disown", k>>
         /\ Tail(WaitDisown(t, k)) = WaitUp(t, k)
         /\ ToSet(WaitDisown(t, k)) =
              {<<"disown", k>>, <<"up", k>>, <<"down", t>>, <<"down", k>>, <<"own", k>>}
         /\ WaitUp(t, k) # <<>> /\ Head(WaitUp(t, k)) = <<"up", k>>
         /\ Tail(WaitUp(t, k)) = WaitDown(t, k)
         /\ ToSet(WaitUp(t, k)) = {<<"up", k>>, <<"down", t>>, <<"down", k>>, <<"own", k>>}
         /\ WaitDown(t, k) # <<>> /\ Head(WaitDown(t, k)) = <<"down", t>>
         /\ Tail(WaitDown(t, k)) = AcquireSteps(k)
         /\ ToSet(WaitDown(t, k)) = {<<"down", t>>, <<"down", k>>, <<"own", k>>}
BY DEF ToSet, WaitDisown, WaitUp, WaitDown, AcquireSteps

\* The steps of cond_wait () in a row.
LEMMA CondWaitSteps ==
  ASSUME NEW c, NEW t, NEW k
  PROVE  LET q == <<<<"wait", c>>>> \o ReleaseSteps(k) \o <<<<"down", t>>>> \o AcquireSteps(k)
         IN  Head(q) = <<"wait", c>> /\ Tail(q) = WaitDisown(t, k)
<1>1. <<<<"wait", c>>>> \o ReleaseSteps(k) = <<<<"wait", c>>, <<"disown", k>>, <<"up", k>>>>
  BY JoinOneTwo DEF ReleaseSteps
<1>2. <<<<"wait", c>>, <<"disown", k>>, <<"up", k>>>> \o <<<<"down", t>>>>
        = <<<<"wait", c>>, <<"disown", k>>, <<"up", k>>, <<"down", t>>>>
  BY JoinThreeOne
<1>3. <<<<"wait", c>>, <<"disown", k>>, <<"up", k>>, <<"down", t>>>> \o AcquireSteps(k)
        = <<<<"wait", c>>, <<"disown", k>>, <<"up", k>>, <<"down", t>>,
            <<"down", k>>, <<"own", k>>>>
  BY JoinFourTwo DEF AcquireSteps
<1>4. LET q == <<<<"wait", c>>, <<"disown", k>>, <<"up", k>>, <<"down", t>>,
                 <<"down", k>>, <<"own", k>>>>
      IN  Head(q) = <<"wait", c>> /\ Tail(q) = WaitDisown(t, k)
  BY DEF WaitDisown
<1> QED
  BY <1>1, <1>2, <1>3, <1>4, Zenon

\* Which stretch Do () runs.
LEMMA DoIs ==
  ASSUME NEW x, NEW rest
  PROVE  /\ Do(<<"down", x>>, rest) => Calling /\ Down(x, rest)
         /\ Do(<<"up", x>>, rest) => Calling /\ Up(x, rest)
         /\ Do(<<"own", x>>, rest) => Calling /\ SetHolder(x, current, rest)
         /\ Do(<<"disown", x>>, rest) => Calling /\ SetHolder(x, NULL, rest)
         /\ Do(<<"wait", x>>, rest) => Calling /\ Wait(x, rest)
         /\ Do(<<"signal", x>>, rest) => Calling /\ Signal(x, <<>>, rest)
         /\ Do(<<"broadcast", x>>, rest) => Calling /\ Signal(x, <<<<"broadcast", x>>>>, rest)
BY DEF Do

-----------------------------------------------------------------------------
(* What steps of the scheduler do to threads that wait.                    *)

\* schedule () blocks nobody but its caller, and unblocks nobody.
LEMMA ScheduleBlocks ==
  ASSUME NEW ready, NEW stat, stat \in [Thread -> Status], Schedule(ready, stat),
         NEW t \in Worker, status'[t] = "BLOCKED"
  PROVE  stat[t] = "BLOCKED"
BY DEF Schedule, Thread

\* A thread gives up the CPU: it waits from now on if it blocks.
LEMMA GivingUp ==
  ASSUME RunInv, NEW s \in {"BLOCKED", "DYING"}, s = "DYING" => current # idle_thread,
         Schedule(ready_list, [status EXCEPT ![current] = s]), priority' = priority,
         NEW t \in Worker
  PROVE  status'[t] = "BLOCKED" <=> status[t] = "BLOCKED" \/ (t = current /\ s = "BLOCKED")
<1> DEFINE stat == [status EXCEPT ![current] = s]
<1>1. Descheduled(ready_list, stat)
  BY GivesUpCPU, Zenon
<1>2. stat[t] = "BLOCKED" => status'[t] = "BLOCKED"
  BY <1>1, ScheduleKeepsRunInv, Zenon DEF RunInv
<1>3. status'[t] = "BLOCKED" => stat[t] = "BLOCKED"
  BY <1>1, ScheduleBlocks, Zenon DEF Descheduled
<1>4. stat[t] = "BLOCKED" <=> status[t] = "BLOCKED" \/ (t = current /\ s = "BLOCKED")
  BY DEF RunInv, Thread
<1> QED
  BY <1>2, <1>3, <1>4

\* thread_yield () blocks nobody.
LEMMA YieldBlocksNobody ==
  ASSUME RunInv, Yield, priority' = priority, NEW t \in Worker
  PROVE  status'[t] = "BLOCKED" <=> status[t] = "BLOCKED"
<1> DEFINE stat == [status EXCEPT ![current] = "READY"]
<1>1. status[t] = "BLOCKED" => status'[t] = "BLOCKED"
  BY YieldKeepsRunInv
<1>2. stat \in [Thread -> Status]
  BY DEF RunInv, Status
<1>3. status'[t] = "BLOCKED" => stat[t] = "BLOCKED"
  BY <1>2, ScheduleBlocks, Zenon DEF Yield
<1>4. stat[t] = "BLOCKED" => status[t] = "BLOCKED"
  BY DEF RunInv, Thread
<1> QED
  BY <1>1, <1>3, <1>4

\* thread_block () makes the caller a thread that waits.
LEMMA BlockEffect ==
  ASSUME IInv, thread_block, NEW t \in Worker
  PROVE  Unblockable(t)' <=> Unblockable(t) \/ t = current
<1>1. status'[t] = "BLOCKED" <=> status[t] = "BLOCKED" \/ t = current
  BY GivingUp DEF thread_block, IInv
<1>2. current \notin ToSet(Sleep_list)
  BY CurrentIsOnNoList DEF IInv
<1> QED
  BY <1>1, <1>2 DEF Unblockable, thread_block, sleepVars

\* thread_unblock () ends the waiting of its argument only.
LEMMA UnblockEffect ==
  ASSUME IInv, NEW h \in Worker, Unblock(h, priority), Sleep_list' = Sleep_list,
         NEW t \in Worker
  PROVE  Unblockable(t)' <=> Unblockable(t) /\ t # h
BY DEF Unblock, Unblockable, IInv, RunInv, Thread

\* Nothing else in thread.c and timer.c starts or ends a wait, or changes the
\* priority of a thread that waits.
LEMMA OtherEffect ==
  ASSUME IInv, OtherCall \/ SchedulerStep, NEW t \in Worker
  PROVE  /\ Unblockable(t)' <=> Unblockable(t)
         /\ Unblockable(t) => priority'[t] = priority[t]
<1>0. /\ RunInv /\ SleepInv /\ ControlInv /\ t \in Thread /\ t # idle_thread
      /\ current \notin ToSet(Sleep_list) /\ status[current] = "RUNNING" /\ current \in Thread
  BY CurrentIsOnNoList, ThreadAssumption DEF IInv, RunInv, Thread
<1>1. ASSUME NEW u \in Worker, NEW pri \in Priority, thread_create(u, pri)
      PROVE  /\ Unblockable(t)' <=> Unblockable(t)
             /\ Unblockable(t) => priority'[t] = priority[t]
  BY <1>0, <1>1 DEF thread_create, Unblock, Unblockable, RunInv, Thread
<1>2. ASSUME NEW pri \in Priority, thread_set_priority(pri)
      PROVE  /\ Unblockable(t)' <=> Unblockable(t)
             /\ Unblockable(t) => priority'[t] = priority[t]
  BY <1>0, <1>2 DEF thread_set_priority, runVars, sleepVars, Unblockable, RunInv
<1>3. ASSUME NEW n \in SleepTicks, timer_sleep(n)
      PROVE  Unblockable(t)' <=> Unblockable(t)
  BY <1>3 DEF timer_sleep, runVars, Unblockable
<1>4. CASE thread_yield
  BY <1>0, <1>4, YieldBlocksNobody DEF thread_yield, sleepVars, Unblockable
<1>5. CASE thread_exit
  <2>1. current # idle_thread /\ Schedule(ready_list, [status EXCEPT ![current] = "DYING"])
    BY <1>5 DEF thread_exit, Calling
  <2> QED
    BY <1>0, <1>5, <2>1, GivingUp DEF thread_exit, sleepVars, Unblockable
<1>6. CASE thread_check_preempt \/ timer_elapsed
  BY <1>6 DEF thread_check_preempt, timer_elapsed, runVars, sleepVars, Unblockable
<1>7. CASE thread_sleep
  <2>1. Schedule(ready_list, [status EXCEPT ![current] = "BLOCKED"]) /\ priority' = priority
    BY <1>7 DEF thread_sleep
  <2>2. status'[t] = "BLOCKED" <=> status[t] = "BLOCKED" \/ t = current
    BY <1>0, <2>1, GivingUp
  <2>3. current \in Worker
    BY <1>0, <1>7 DEF thread_sleep, At, ControlInv, Thread
  <2>4. ToSet(Sleep_list') = ToSet(Sleep_list) \cup {current}
    BY <1>0, <1>7, <2>3, InsertOrderedAdds DEF thread_sleep, SleepInv
  <2> QED
    BY <1>0, <2>1, <2>2, <2>4 DEF Unblockable
<1>8. CASE idle
  <2>1. Schedule(ready_list, [status EXCEPT ![current] = "BLOCKED"]) /\ current = idle_thread
    BY <1>8 DEF idle
  <2> QED
    BY <1>0, <1>8, <2>1, GivingUp DEF idle, sleepVars, Unblockable
<1>9. CASE timer_interrupt \/ WakeEnd
  BY <1>9 DEF timer_interrupt, WakeEnd, runVars, sleepVars, Unblockable
<1>10. CASE WakeNext
  <2>1. /\ Sleep_list # <<>> /\ Sleep_list' = Tail(Sleep_list) /\ priority' = priority
        /\ status' = [status EXCEPT ![Head(Sleep_list)] = "READY"]
    BY <1>10 DEF WakeNext, Unblock
  <2>2. /\ Head(Sleep_list) \in Worker /\ Head(Sleep_list) \in ToSet(Sleep_list)
        /\ ToSet(Sleep_list) = ToSet(Tail(Sleep_list)) \cup {Head(Sleep_list)}
    BY <1>0, <2>1, PopFront DEF SleepInv
  <2> QED
    BY <1>0, <2>1, <2>2 DEF Unblockable, RunInv
<1>11. CASE thread_aging
  BY <1>0, <1>11 DEF thread_aging, runVars, sleepVars, Unblockable, RunInv
<1>12. CASE IntrReturn
  BY <1>0, <1>12, YieldBlocksNobody DEF IntrReturn, runVars, sleepVars, Unblockable
<1> QED
  BY <1>1, <1>2, <1>3, <1>4, <1>5, <1>6, <1>7, <1>8, <1>9, <1>10, <1>11, <1>12
     DEF OtherCall, SchedulerStep, HandlerStep, timer_sleep

-----------------------------------------------------------------------------
(* The stretches as they occur: q is what the running thread has yet to do *)
(* of its call, the stretch included.                                      *)

DownKind(s, q) ==
  \/ s \in Counting /\ q = <<<<"down", s>>>> /\ op[current] \in {<<>>, q}
  \/ s \in Lock /\ q = AcquireSteps(s) /\ op[current] \in {<<>>, q} /\ holder[s] # current
  \/ s = current /\ op[current] = q /\ \E k \in Lock : q = WaitDown(s, k)

UpKind(s, q) ==
  \/ s \in Counting /\ q = <<<<"up", s>>>> /\ op[current] = <<>>
  \/ s \in Lock /\ q \in {<<<<"up", s>>>>, WaitUp(current, s)} /\ op[current] = q
  \/ s \in Worker /\ q = <<<<"up", s>>>> /\ op[current] = q
  \/ s \in Worker /\ op[current] = q /\ \E c \in Cond : q = <<<<"up", s>>, <<"broadcast", c>>>>

DownTurn == \E s \in Sema : \E q : DownKind(s, q) /\ Down(s, Tail(q))
UpTurn   == \E s \in Sema : \E q : UpKind(s, q) /\ Up(s, Tail(q))

OwnTurn ==
  \E k \in Lock : op[current] = <<<<"own", k>>>> /\ SetHolder(k, current, <<>>)

DisownTurn ==
  \E k \in Lock : /\ holder[k] = current
                  /\ \/ op[current] = <<>> /\ SetHolder(k, NULL, <<<<"up", k>>>>)
                     \/ /\ op[current] = WaitDisown(current, k)
                        /\ SetHolder(k, NULL, WaitUp(current, k))

WaitTurn ==
  \E c \in Cond : /\ op[current] = <<>> /\ holder[CondLock[c]] = current
                  /\ Wait(c, WaitDisown(current, CondLock[c]))

SignalTurn ==
  \E c \in Cond : \E more \in {<<>>, <<<<"broadcast", c>>>>} :
    op[current] \in {<<>>, more} /\ Signal(c, more, <<>>)

Turn == /\ Calling /\ current \in Worker
        /\ DownTurn \/ UpTurn \/ OwnTurn \/ DisownTurn \/ WaitTurn \/ SignalTurn

\* A thread that is in a call or starts one does one of these.
LEMMA CallIsTurn ==
  ASSUME SInv,
         \/ \E s \in Counting : sema_down(s) \/ sema_up(s) \/ sema_try_down(s)
         \/ \E k \in Lock : lock_acquire(k) \/ lock_try_acquire(k) \/ lock_release(k)
         \/ \E c \in Cond : cond_wait(c) \/ cond_signal(c) \/ cond_broadcast(c)
         \/ Continue
  PROVE  Turn
<1>1. /\ Calling => current \in Worker
      /\ Calling => OpShape(current, op[current])
  BY DEF SInv, SemaInv, IInv, RunInv, Thread, Calling, OpInv
<1>2. ASSUME NEW s \in Counting, sema_down(s) \/ sema_up(s) \/ sema_try_down(s) PROVE Turn
  <2>0. s \in Sema
    BY DEF Sema
  <2>1. CASE sema_up(s)
    <3>1. Calling /\ op[current] = <<>> /\ Up(s, Tail(<<<<"up", s>>>>))
      BY <2>1, OneStep, DoIs, Zenon DEF sema_up, Call, Free
    <3>2. UpKind(s, <<<<"up", s>>>>)
      BY <3>1 DEF UpKind
    <3> QED
      BY <1>1, <2>0, <3>1, <3>2, Zenon DEF Turn, UpTurn
  <2>2. CASE sema_down(s) \/ sema_try_down(s)
    <3>1. Calling /\ op[current] = <<>> /\ Down(s, Tail(<<<<"down", s>>>>))
      BY <2>2, OneStep, DoIs, Zenon DEF sema_down, sema_try_down, Call, Free
    <3>2. DownKind(s, <<<<"down", s>>>>)
      BY <3>1 DEF DownKind
    <3> QED
      BY <1>1, <2>0, <3>1, <3>2, Zenon DEF Turn, DownTurn
  <2> QED
    BY <1>2, <2>1, <2>2
<1>3. ASSUME NEW k \in Lock, lock_acquire(k) \/ lock_try_acquire(k) \/ lock_release(k) PROVE Turn
  <2>0. k \in Sema
    BY DEF Sema
  <2>1. CASE lock_release(k)
    <3>1. /\ Calling /\ op[current] = <<>> /\ holder[k] = current
          /\ Do(<<"disown", k>>, <<<<"up", k>>>>)
      BY <2>1, TwoSteps DEF lock_release, Call, Free, Holds, ReleaseSteps
    <3>2. SetHolder(k, NULL, <<<<"up", k>>>>)
      BY <3>1, DoIs, Zenon
    <3> QED
      BY <1>1, <3>1, <3>2 DEF Turn, DisownTurn
  <2>2. CASE lock_acquire(k) \/ lock_try_acquire(k)
    <3>1. /\ Calling /\ op[current] = <<>> /\ holder[k] # current
          /\ Do(<<"down", k>>, Tail(AcquireSteps(k)))
      BY <2>2, TwoSteps DEF lock_acquire, lock_try_acquire, Call, Free, Holds, AcquireSteps
    <3>2. Down(k, Tail(AcquireSteps(k)))
      BY <3>1, DoIs, Zenon
    <3> QED
      BY <1>1, <2>0, <3>1, <3>2 DEF Turn, DownTurn, DownKind
  <2> QED
    BY <1>3, <2>1, <2>2
<1>4. ASSUME NEW c \in Cond, cond_wait(c) \/ cond_signal(c) \/ cond_broadcast(c) PROVE Turn
  <2>1. CASE cond_wait(c)
    <3> DEFINE k == CondLock[c]
               q == <<<<"wait", c>>>> \o ReleaseSteps(k) \o <<<<"down", current>>>>
                      \o AcquireSteps(k)
    <3>0. Calling /\ op[current] = <<>> /\ holder[k] = current /\ Do(Head(q), Tail(q))
      BY <2>1, Zenon DEF cond_wait, Call, Free, Holds
    <3>a. Head(q) = <<"wait", c>> /\ Tail(q) = WaitDisown(current, k)
      BY CondWaitSteps, Zenon
    <3>1. /\ Calling /\ op[current] = <<>> /\ holder[CondLock[c]] = current
          /\ Do(<<"wait", c>>, WaitDisown(current, CondLock[c]))
      BY <3>0, <3>a, Zenon
    <3>2. Wait(c, WaitDisown(current, CondLock[c]))
      BY <3>1, DoIs, Zenon
    <3> QED
      BY <1>1, <3>1, <3>2 DEF Turn, WaitTurn
  <2>2. CASE cond_signal(c)
    <3>1. Calling /\ op[current] = <<>> /\ Signal(c, <<>>, <<>>)
      BY <2>2, OneStep, DoIs, Zenon DEF cond_signal, Call, Free
    <3> QED
      BY <1>1, <3>1 DEF Turn, SignalTurn
  <2>3. CASE cond_broadcast(c)
    <3>1. Calling /\ op[current] = <<>> /\ Signal(c, <<<<"broadcast", c>>>>, <<>>)
      BY <2>3, OneStep, DoIs, Zenon DEF cond_broadcast, Call, Free
    <3> QED
      BY <1>1, <3>1 DEF Turn, SignalTurn
  <2> QED
    BY <1>4, <2>1, <2>2, <2>3
<1>5. CASE Continue
  <2> DEFINE q == op[current]
  <2>0. Calling /\ current \in Worker /\ q # <<>> /\ Do(Head(q), Tail(q)) /\ OpShape(current, q)
    BY <1>1, <1>5 DEF Continue
  <2> HIDE DEF q
  <2>1. ASSUME NEW s \in Counting, q = <<<<"down", s>>>> PROVE Turn
    <3>1. Down(s, Tail(q))
      BY <2>0, <2>1, OneStep, DoIs, Zenon
    <3> QED
      BY <2>0, <2>1, <3>1, Zenon DEF q, Turn, DownTurn, DownKind, Sema
  <2>2. ASSUME NEW k \in Lock, q = AcquireSteps(k) PROVE Turn
    <3>1. Head(q) = <<"down", k>>
      BY <2>2, TwoSteps DEF AcquireSteps
    <3>2. Down(k, Tail(q))
      BY <2>0, <3>1, DoIs, Zenon
    <3>a. <<"own", k>> \in ToSet(q) /\ <<"disown", k>> \notin ToSet(q)
      BY <2>2, AcquireIs
    <3>3. holder[k] # current
      BY <2>0, <3>a, Zenon DEF SInv, SemaInv, LockInv, Handles, q
    <3> QED
      BY <2>0, <2>2, <3>2, <3>3 DEF q, Turn, DownTurn, DownKind, Sema
  <2>3. ASSUME NEW k \in Lock, q = <<<<"own", k>>>> PROVE Turn
    <3>1. SetHolder(k, current, <<>>)
      BY <2>0, <2>3, OneStep, DoIs, Zenon
    <3> QED
      BY <2>0, <2>3, <3>1 DEF q, Turn, OwnTurn
  <2>4. ASSUME NEW s \in Lock \cup Worker, q = <<<<"up", s>>>> PROVE Turn
    <3>1. Up(s, Tail(q))
      BY <2>0, <2>4, OneStep, DoIs, Zenon
    <3> QED
      BY <2>0, <2>4, <3>1, Zenon DEF q, Turn, UpTurn, UpKind, Sema
  <2>5. ASSUME NEW k \in Lock, q = WaitDisown(current, k) PROVE Turn
    <3>1. Do(<<"disown", k>>, WaitUp(current, k))
      BY <2>0, <2>5, WaitSteps, Zenon
    <3>2. SetHolder(k, NULL, WaitUp(current, k))
      BY <3>1, DoIs, Zenon
    <3>a. <<"own", k>> \in ToSet(q) /\ <<"disown", k>> \in ToSet(q)
      BY <2>5, WaitSteps
    <3>3. holder[k] = current
      BY <2>0, <3>a, Zenon DEF SInv, SemaInv, LockInv, Handles, q
    <3> QED
      BY <2>0, <2>5, <3>2, <3>3 DEF q, Turn, DisownTurn
  <2>6. ASSUME NEW k \in Lock, q = WaitUp(current, k) PROVE Turn
    <3>1. Do(<<"up", k>>, Tail(q))
      BY <2>0, <2>6, WaitSteps, Zenon
    <3>2. Up(k, Tail(q))
      BY <3>1, DoIs, Zenon
    <3> QED
      BY <2>0, <2>6, <3>2 DEF q, Turn, UpTurn, UpKind, Sema
  <2>7. ASSUME NEW k \in Lock, q = WaitDown(current, k) PROVE Turn
    <3>1. Do(<<"down", current>>, Tail(q))
      BY <2>0, <2>7, WaitSteps, Zenon
    <3>2. Down(current, Tail(q))
      BY <3>1, DoIs, Zenon
    <3> QED
      BY <2>0, <2>7, <3>2 DEF q, Turn, DownTurn, DownKind, Sema
  <2>8. ASSUME NEW u \in Worker, NEW c \in Cond, q = <<<<"up", u>>, <<"broadcast", c>>>>
        PROVE  Turn
    <3>1. Do(<<"up", u>>, Tail(q))
      BY <2>0, <2>8, TwoSteps
    <3>2. Up(u, Tail(q))
      BY <3>1, DoIs, Zenon
    <3> QED
      BY <2>0, <2>8, <3>2, Zenon DEF q, Turn, UpTurn, UpKind, Sema
  <2>9. ASSUME NEW c \in Cond, q = <<<<"broadcast", c>>>> PROVE Turn
    <3>1. Signal(c, <<<<"broadcast", c>>>>, <<>>)
      BY <2>0, <2>9, OneStep, DoIs, Zenon
    <3> QED
      BY <2>0, <2>9, <3>1, Zenon DEF q, Turn, SignalTurn
  <2> QED
    BY <2>0, <2>1, <2>2, <2>3, <2>4, <2>5, <2>6, <2>7, <2>8, <2>9 DEF OpShape
<1> QED
  BY <1>2, <1>3, <1>4, <1>5

-----------------------------------------------------------------------------
(* The lists of waiters.                                                   *)

\* The running thread is on no list of waiters.
LEMMA CallerNotWaiting ==
  ASSUME SInv, current \in Worker
  PROVE  /\ ~Unblockable(current)
         /\ \A s \in Sema : current \notin ToSet(waiters[s])
BY CurrentIsOnNoList, Zenon DEF SInv, SemaInv, IInv, Unblockable, ElemInv

\* The semaphore of a semaphore_elem is downed by the thread it is of.
LEMMA OwnSemaphore ==
  ASSUME OpInv, NEW t \in Worker, NEW s \in Sema, AtStep(t, <<"down", s>>)
  PROVE  s \in Worker => s = t
<1>1. OpShape(t, op[t]) /\ op[t] # <<>> /\ Head(op[t]) = <<"down", s>>
  BY DEF OpInv, AtStep
<1>2. s \in Worker => s \notin Counting /\ s \notin Lock
  BY SynchAssumption
<1> QED
  BY <1>1, <1>2, OneStep, TwoSteps, WaitSteps DEF OpShape, AcquireSteps

\* A step that neither starts nor ends a wait keeps the lists of waiters.
LEMMA WaitersKept ==
  ASSUME SInv, waiters' = waiters, priority' \in [Thread -> Priority],
         \A t \in Worker : Unblockable(t)' <=> Unblockable(t),
         \A t \in Worker : Unblockable(t) => op'[t] = op[t] /\ priority'[t] = priority[t]
  PROVE  ElemInv' /\ WaitersSorted'
<1>0. ElemInv /\ priority \in [Thread -> Priority]
  BY DEF SInv, SemaInv, IInv, RunInv
<1>1. ASSUME NEW s \in Sema, NEW t \in ToSet(waiters[s])
      PROVE  /\ t \in Worker /\ AtStep(t, <<"down", s>>)' /\ Unblockable(t)'
             /\ priority'[t] = priority[t]
  <2>1. t \in Worker /\ AtStep(t, <<"down", s>>) /\ Unblockable(t)
    BY <1>0 DEF ElemInv, Unblockable
  <2> QED
    BY <2>1 DEF AtStep
<1>2. ElemInv'
  BY <1>0, <1>1 DEF ElemInv
<1>3. ASSUME NEW s \in Sema
      PROVE  IsOrdered(waiters[s], thread_priority_greater(priority'))
  <2>1. waiters[s] \in Seq(Worker) /\ IsOrdered(waiters[s], thread_priority_greater(priority))
    BY <1>0, Zenon DEF SInv, SemaInv, WaitersSorted, ElemInv
  <2>2. \A a, b \in ToSet(waiters[s]) : priority'[a] > priority'[b] => priority[a] > priority[b]
    BY <1>1, Zenon
  <2> QED
    BY <1>0, <2>1, <2>2, PriorityOrderKept
<1> QED
  BY <1>2, <1>3 DEF WaitersSorted

\* sema_down () that waits puts the running thread on the list, where its
\* priority belongs.
LEMMA WaitersGrow ==
  ASSUME SInv, current \in Worker, NEW s \in Sema, thread_block,
         waiters' = [waiters EXCEPT ![s] = ReadyInsert(@, current, priority)],
         op'[current] # <<>>, Head(op'[current]) = <<"down", s>>,
         \A t \in Worker : t # current => op'[t] = op[t]
  PROVE  ElemInv' /\ WaitersSorted'
<1>0. /\ ElemInv /\ IInv /\ priority \in [Thread -> Priority] /\ priority' = priority
      /\ WaitersSorted
  BY Zenon DEF SInv, SemaInv, IInv, RunInv, thread_block
<1>1. \A u \in Sema : current \notin ToSet(waiters[u])
  BY CallerNotWaiting
<1>2. /\ waiters'[s] =
           list_insert_ordered(waiters[s], current, thread_priority_greater(priority))
      /\ \A u \in Sema : u # s => waiters'[u] = waiters[u]
      /\ DOMAIN waiters' = Sema
      /\ waiters[s] \in Seq(Worker)
  BY <1>0, Zenon DEF ElemInv, ReadyInsert
<1>3. /\ waiters'[s] \in Seq(Worker) /\ NoRepeats(waiters'[s])
      /\ ToSet(waiters'[s]) = ToSet(waiters[s]) \cup {current}
  <2>1. NoRepeats(waiters[s]) /\ current \in Worker /\ current \notin ToSet(waiters[s])
    BY <1>0, <1>1 DEF ElemInv
  <2> QED
    <3>1. PICK w \in Seq(Worker) : w = waiters[s]
      BY <1>2, Zenon
    <3>2. PICK less : less = thread_priority_greater(priority)
      BY Zenon
    <3>3. LET r == list_insert_ordered(w, current, less)
          IN  /\ r \in Seq(Worker) /\ ToSet(r) = ToSet(w) \cup {current}
              /\ NoRepeats(w) /\ current \notin ToSet(w) => NoRepeats(r)
      BY <2>1, InsertOrderedAdds
    <3> QED
      BY <1>2, <2>1, <3>1, <3>2, <3>3, Zenon
<1>4. IsOrdered(waiters'[s], thread_priority_greater(priority))
  BY <1>0, <1>2, PriorityOrder, InsertOrderedSorts DEF WaitersSorted
<1>5. WaitersSorted'
  BY <1>0, <1>2, <1>4, Zenon DEF WaitersSorted
<1>6. \A t \in Worker : Unblockable(t)' <=> Unblockable(t) \/ t = current
  BY <1>0, BlockEffect
<1>7. waiters' \in [Sema -> Seq(Worker)] /\ \A u \in Sema : NoRepeats(waiters'[u])
  BY <1>0, <1>2, <1>3, Zenon DEF ElemInv
<1>8. ASSUME NEW u \in Sema, NEW t \in ToSet(waiters'[u])
      PROVE  AtStep(t, <<"down", u>>)' /\ Unblockable(t)'
  <2>1. CASE t = current
    <3>1. u = s
      BY <1>1, <1>2, <2>1
    <3> QED
      BY <1>6, <2>1, <3>1 DEF AtStep
  <2>2. CASE t # current
    <3>1. t \in ToSet(waiters[u])
      BY <1>2, <1>3, <2>2
    <3>2. t \in Worker /\ AtStep(t, <<"down", u>>) /\ Unblockable(t)
      BY <1>0, <3>1, Zenon DEF ElemInv, Unblockable
    <3> QED
      BY <1>6, <2>2, <3>2 DEF AtStep
  <2> QED
    BY <2>1, <2>2
<1>9. ASSUME NEW t \in Worker, Unblockable(t)'
      PROVE  \E u \in Sema : t \in ToSet(waiters'[u])
  <2>1. CASE t = current
    BY <1>3, <2>1
  <2>2. CASE t # current
    <3>1. PICK u \in Sema : t \in ToSet(waiters[u])
      BY <1>0, <1>6, <1>9, <2>2 DEF ElemInv
    <3> QED
      BY <1>2, <1>3, <3>1
  <2> QED
    BY <2>1, <2>2
<1> QED
  BY <1>5, <1>7, <1>8, <1>9 DEF ElemInv

\* sema_up () takes the front waiter off, which it unblocks.
LEMMA WaitersShrink ==
  ASSUME SInv, NEW s \in Sema, waiters[s] # <<>>, PopWaiter(s),
         Unblock(Head(waiters[s]), priority), priority' = priority, Sleep_list' = Sleep_list,
         \A t \in Worker : Unblockable(t) => op'[t] = op[t]
  PROVE  ElemInv' /\ WaitersSorted'
<1> DEFINE h == Head(waiters[s])
<1>0. /\ ElemInv /\ IInv /\ WaitersSorted /\ waiters[s] \in Seq(Worker)
  BY Zenon DEF SInv, SemaInv, ElemInv
<1>1. /\ h \in Worker /\ h \in ToSet(waiters[s]) /\ Tail(waiters[s]) \in Seq(Worker)
      /\ ToSet(waiters[s]) = ToSet(Tail(waiters[s])) \cup {h}
      /\ NoRepeats(Tail(waiters[s])) /\ h \notin ToSet(Tail(waiters[s]))
  BY <1>0, PopFront, Zenon DEF ElemInv
<1>2. /\ waiters'[s] = Tail(waiters[s])
      /\ \A u \in Sema : u # s => waiters'[u] = waiters[u]
      /\ DOMAIN waiters' = Sema
  BY <1>0 DEF ElemInv, PopWaiter
<1> HIDE DEF h
<1>3. \A t \in Worker : Unblockable(t)' <=> Unblockable(t) /\ t # h
  BY <1>0, <1>1, UnblockEffect DEF h
<1>4. IsOrdered(waiters'[s], thread_priority_greater(priority))
  BY <1>0, <1>2, FrontIsFirst DEF WaitersSorted
<1>5. WaitersSorted'
  BY <1>0, <1>2, <1>4, Zenon DEF WaitersSorted
<1>6. waiters' \in [Sema -> Seq(Worker)] /\ \A u \in Sema : NoRepeats(waiters'[u])
  <2>1. \A u \in Sema : waiters'[u] \in Seq(Worker) /\ NoRepeats(waiters'[u])
    BY <1>0, <1>1, <1>2, Zenon DEF ElemInv
  <2>2. waiters' = [u \in Sema |-> waiters'[u]]
    BY <1>0, Zenon DEF ElemInv, PopWaiter
  <2> QED
    BY <2>1, <2>2
<1>7. ASSUME NEW u \in Sema, NEW t \in ToSet(waiters'[u])
      PROVE  AtStep(t, <<"down", u>>)' /\ Unblockable(t)'
  <2>1. t \in ToSet(waiters[u])
    BY <1>1, <1>2, Zenon
  <2>2. t \in Worker /\ AtStep(t, <<"down", u>>) /\ Unblockable(t)
    BY <1>0, <2>1 DEF ElemInv, Unblockable
  <2>3. t # h
    <3>1. AtStep(h, <<"down", s>>)
      BY <1>0, <1>1 DEF ElemInv
    <3>2. t = h => u = s
      BY <2>2, <3>1 DEF AtStep
    <3> QED
      BY <1>1, <1>2, <3>2, Zenon
  <2> QED
    BY <1>3, <2>2, <2>3 DEF AtStep
<1>8. ASSUME NEW t \in Worker, Unblockable(t)'
      PROVE  \E u \in Sema : t \in ToSet(waiters'[u])
  <2>1. PICK u \in Sema : t \in ToSet(waiters[u])
    BY <1>0, <1>3, <1>8, Zenon DEF ElemInv
  <2>2. t # h
    BY <1>3, <1>8
  <2> QED
    BY <1>1, <1>2, <2>1, <2>2, Zenon
<1> QED
  BY <1>5, <1>6, <1>7, <1>8 DEF ElemInv

\* Without waiters sema_up () leaves the lists as they are.
LEMMA NobodyToWake ==
  ASSUME waiters \in [Sema -> Seq(Worker)], NEW s \in Sema, waiters[s] = <<>>, PopWaiter(s)
  PROVE  waiters' = waiters
BY DEF PopWaiter

-----------------------------------------------------------------------------
(* Steps of synch.c are steps of the scheduler.                            *)

\* The calling thread's stretches.
LEMMA TurnIsThreadStep ==
  ASSUME SInv, Turn
  PROVE  [Next]_vars
<1>1. CASE OwnTurn \/ DisownTurn \/ WaitTurn \/ SignalTurn
  BY <1>1, Zenon DEF OwnTurn, DisownTurn, WaitTurn, SignalTurn, SetHolder, Wait, Signal
<1>2. CASE DownTurn
  BY <1>2 DEF DownTurn, Down, Next, ThreadStep
<1>3. CASE UpTurn
  <2>0. PICK s \in Sema : \E q : Up(s, Tail(q))
    BY <1>3 DEF UpTurn
  <2>1. PICK q : Up(s, Tail(q))
    BY <2>0
  <2>2. CASE waiters[s] = <<>>
    <3>1. /\ priority[current] \in Priority
          /\ priority = [priority EXCEPT ![current] = priority[current]]
      BY DEF SInv, SemaInv, IInv, RunInv
    <3>2. thread_set_priority(priority[current])
      BY <2>1, <2>2, <3>1 DEF Up, thread_set_priority, Turn
    <3> QED
      BY <3>1, <3>2 DEF Next, ThreadStep
  <2>3. CASE waiters[s] # <<>>
    <3>1. Head(waiters[s]) \in Worker
      BY <2>3, PopFront DEF SInv, SemaInv, ElemInv
    <3> QED
      BY <2>1, <2>3, <3>1, Zenon DEF Up, Next, ThreadStep
  <2> QED
    BY <2>2, <2>3
<1> QED
  BY <1>1, <1>2, <1>3 DEF Turn

\* sema_up () in an interrupt handler.
LEMMA IntrIsThreadStep ==
  ASSUME SInv, NEW s \in Sema, IntrSemaUp(s)
  PROVE  Next
<1>1. waiters[s] # <<>> => Head(waiters[s]) \in Worker
  BY PopFront DEF SInv, SemaInv, ElemInv
<1> QED
  BY <1>1 DEF IntrSemaUp, Next

\* The rest is.
LEMMA OtherIsThreadStep ==
  ASSUME OtherCall \/ SchedulerStep
  PROVE  Next
BY DEF OtherCall, SchedulerStep, Next, ThreadStep

\* Every step keeps to the interface of the scheduler, and so its invariant.
LEMMA SynchStepIsThreadStep ==
  ASSUME SInv, [SynchNext]_allVars
  PROVE  [Next]_vars /\ IInv'
<1>1. [Next]_vars
  <2>1. CASE UNCHANGED allVars
    BY <2>1 DEF allVars
  <2>2. ASSUME NEW s \in Counting, IntrSemaUp(s) PROVE Next
    BY <2>2, IntrIsThreadStep DEF Sema
  <2>3. CASE SynchNext /\ ~(\E s \in Counting : IntrSemaUp(s))
    BY <2>3, CallIsTurn, TurnIsThreadStep, OtherIsThreadStep DEF SynchNext
  <2> QED
    BY <2>1, <2>2, <2>3
<1> QED
  BY <1>1, NextKeepsIInv DEF SInv, SemaInv

-----------------------------------------------------------------------------
(* What the parts of the invariant read off op[t], for everything it can   *)
(* be.                                                                     *)

StartsWith(q, step) == q # <<>> /\ Head(q) = step

\* The semaphore a thread is in sema_down () of.
ReadsDown(q, down) == \A s \in Sema : StartsWith(q, <<"down", s>>) <=> s \in down

\* The locks it owns without being the holder, those it deals with, and the
\* one it is about to give up.
ReadsLock(q, owns, handles, disowns) ==
  \A k \in Lock :
    /\ StartsWith(q, <<"own", k>>) \/ StartsWith(q, <<"up", k>>) <=> k \in owns
    /\ <<"own", k>> \in ToSet(q) \/ <<"up", k>> \in ToSet(q) <=> k \in handles
    /\ <<"disown", k>> \in ToSet(q) <=> k \in disowns

\* The thread it is about to wake, and the own semaphore it is about to down.
ReadsCond(q, wakes, waits) ==
  \A u \in Worker : /\ <<"up", u>> \in ToSet(q) <=> u \in wakes
                    /\ <<"down", u>> \in ToSet(q) <=> u \in waits

Reads(q, down, owns, handles, disowns, wakes, waits) ==
  /\ q \in Seq(Steps)
  /\ ReadsDown(q, down)
  /\ ReadsLock(q, owns, handles, disowns)
  /\ ReadsCond(q, wakes, waits)

\* A thread that is in no call.
LEMMA ReadFree == Reads(<<>>, {}, {}, {}, {}, {}, {})
BY NoStep DEF Reads, ReadsDown, ReadsLock, ReadsCond, StartsWith

\* sema_down () and sema_up ().
LEMMA ReadSema ==
  ASSUME NEW s \in Counting
  PROVE  /\ Reads(<<<<"down", s>>>>, {s}, {}, {}, {}, {}, {})
         /\ Reads(<<<<"up", s>>>>, {}, {}, {}, {}, {}, {})
<1>1. s \in Sema /\ s \notin Lock /\ s \notin Worker
  BY SynchAssumption DEF Sema
<1>2. <<<<"down", s>>>> \in Seq(Steps) /\ <<<<"up", s>>>> \in Seq(Steps)
  BY <1>1 DEF Steps
<1> QED
  BY <1>1, <1>2, OneStep DEF Reads, ReadsDown, ReadsLock, ReadsCond, StartsWith

\* lock_acquire () and lock_release ().
LEMMA ReadLock ==
  ASSUME NEW k \in Lock
  PROVE  /\ Reads(AcquireSteps(k), {k}, {}, {k}, {}, {}, {})
         /\ Reads(<<<<"own", k>>>>, {}, {k}, {k}, {}, {}, {})
         /\ Reads(<<<<"up", k>>>>, {}, {k}, {k}, {}, {}, {})
<1>1. k \in Sema /\ k \notin Worker
  BY SynchAssumption DEF Sema
<1>2. /\ AcquireSteps(k) \in Seq(Steps)
      /\ <<<<"own", k>>>> \in Seq(Steps) /\ <<<<"up", k>>>> \in Seq(Steps)
  BY <1>1 DEF Steps, AcquireSteps
<1>3. Reads(AcquireSteps(k), {k}, {}, {k}, {}, {}, {})
  BY <1>1, <1>2, AcquireIs DEF Reads, ReadsDown, ReadsLock, ReadsCond, StartsWith
<1>4. /\ Reads(<<<<"own", k>>>>, {}, {k}, {k}, {}, {}, {})
      /\ Reads(<<<<"up", k>>>>, {}, {k}, {k}, {}, {}, {})
  BY <1>1, <1>2, OneStep DEF Reads, ReadsDown, ReadsLock, ReadsCond, StartsWith
<1> QED
  BY <1>3, <1>4

\* cond_wait ().
LEMMA ReadWait ==
  ASSUME NEW t \in Worker, NEW k \in Lock
  PROVE  /\ Reads(WaitDisown(t, k), {}, {}, {k}, {k}, {}, {t})
         /\ Reads(WaitUp(t, k), {}, {k}, {k}, {}, {}, {t})
         /\ Reads(WaitDown(t, k), {t}, {}, {k}, {}, {}, {t})
<1>1. k \in Sema /\ t \in Sema /\ k \notin Worker /\ t \notin Lock
  BY SynchAssumption DEF Sema
<1>2. /\ WaitDisown(t, k) \in Seq(Steps) /\ WaitUp(t, k) \in Seq(Steps)
      /\ WaitDown(t, k) \in Seq(Steps)
  BY <1>1 DEF Steps, WaitDisown, WaitUp, WaitDown
<1> QED
  <2> DEFINE a == WaitDisown(t, k)
             b == WaitUp(t, k)
             c == WaitDown(t, k)
  <2>1. ReadsDown(a, {}) /\ ReadsDown(b, {}) /\ ReadsDown(c, {t})
    BY <1>1, WaitSteps DEF ReadsDown, StartsWith
  <2>2. ReadsLock(a, {}, {k}, {k}) /\ ReadsLock(b, {k}, {k}, {}) /\ ReadsLock(c, {}, {k}, {})
    BY <1>1, WaitSteps DEF ReadsLock, StartsWith
  <2>3. ReadsCond(a, {}, {t}) /\ ReadsCond(b, {}, {t}) /\ ReadsCond(c, {}, {t})
    BY <1>1, WaitSteps DEF ReadsCond
  <2> QED
    BY <1>2, <2>1, <2>2, <2>3, Zenon DEF Reads

\* The sema_up () of cond_signal ().
LEMMA ReadWake ==
  ASSUME NEW u \in Worker
  PROVE  Reads(<<<<"up", u>>>>, {}, {}, {}, {}, {u}, {})
<1>1. u \in Sema /\ u \notin Lock
  BY SynchAssumption DEF Sema
<1>2. <<<<"up", u>>>> \in Seq(Steps)
  BY <1>1 DEF Steps
<1> QED
  BY <1>1, <1>2, OneStep DEF Reads, ReadsDown, ReadsLock, ReadsCond, StartsWith

\* cond_signal () and cond_broadcast ().
LEMMA ReadSignal ==
  ASSUME NEW u \in Worker, NEW c \in Cond
  PROVE  /\ Reads(<<<<"up", u>>>>, {}, {}, {}, {}, {u}, {})
         /\ Reads(<<<<"up", u>>, <<"broadcast", c>>>>, {}, {}, {}, {}, {u}, {})
         /\ Reads(<<<<"broadcast", c>>>>, {}, {}, {}, {}, {}, {})
<1>1. u \in Sema /\ u \notin Lock
  BY SynchAssumption DEF Sema
<1>2. /\ <<<<"up", u>>>> \in Seq(Steps) /\ <<<<"broadcast", c>>>> \in Seq(Steps)
      /\ <<<<"up", u>>, <<"broadcast", c>>>> \in Seq(Steps)
  BY <1>1 DEF Steps
<1> QED
  <2> DEFINE a == <<<<"up", u>>>>
             b == <<<<"up", u>>, <<"broadcast", c>>>>
             d == <<<<"broadcast", c>>>>
  <2>1. ReadsDown(a, {}) /\ ReadsDown(b, {}) /\ ReadsDown(d, {})
    BY OneStep, TwoSteps DEF ReadsDown, StartsWith
  <2>2. ReadsLock(a, {}, {}, {}) /\ ReadsLock(b, {}, {}, {}) /\ ReadsLock(d, {}, {}, {})
    BY <1>1, OneStep, TwoSteps DEF ReadsLock, StartsWith
  <2>3. ReadsCond(a, {u}, {}) /\ ReadsCond(b, {u}, {}) /\ ReadsCond(d, {}, {})
    BY OneStep, TwoSteps DEF ReadsCond
  <2> QED
    BY <1>2, <2>1, <2>2, <2>3, Zenon DEF Reads

-----------------------------------------------------------------------------
(* How the parts of the invariant survive a stretch that leaves the        *)
(* running thread with q.                                                  *)

\* Only the running thread moves on in its call ...
LEMMA OpAfter ==
  ASSUME OpInv, current \in Worker, NEW q, Then(q)
  PROVE  /\ op'[current] = q
         /\ \A t \in Worker : t # current => op'[t] = op[t]
BY DEF OpInv, Then

\* ... to something a call can be at.
LEMMA OpKept ==
  ASSUME OpInv, current \in Worker, NEW q \in Seq(Steps), OpShape(current, q), Then(q)
  PROVE  OpInv'
<1>1. op' \in [Worker -> Seq(Steps)]
  BY DEF OpInv, Then
<1>2. ASSUME NEW t \in Worker PROVE OpShape(t, op'[t])
  <2>1. CASE t = current
    BY <2>1, OpAfter
  <2>2. CASE t # current
    BY <2>2, OpAfter DEF OpInv
  <2> QED
    BY <2>1, <2>2
<1> QED
  BY <1>1, <1>2, Zenon DEF OpInv, OpShape, AcquireSteps, WaitDisown, WaitUp, WaitDown

\* Nobody becomes or ceases to be the owner of a lock.
LEMMA LockKept ==
  ASSUME SInv, current \in Worker, NEW q, Then(q), holder' = holder,
         \A k \in Lock : value'[k] = value[k],
         NEW owns, NEW h, NEW x, ReadsLock(op[current], owns, h, x),
         NEW g, NEW y, ReadsLock(q, owns, g, y),
         \A k \in Lock : k \in g => (holder[k] = current <=> k \in y)
  PROVE  LockInv'
<1>0. LockInv /\ OpInv
  BY DEF SInv, SemaInv
<1>1. /\ op'[current] = q
      /\ \A t \in Worker : t # current => op'[t] = op[t]
  BY <1>0, OpAfter
<1>2. ASSUME NEW t \in Worker, NEW k \in Lock PROVE IsOwner(t, k)' <=> IsOwner(t, k)
  <2>1. CASE t = current
    BY <1>1, <2>1, Zenon DEF IsOwner, AtStep, ReadsLock, StartsWith
  <2>2. CASE t # current
    BY <1>1, <2>2 DEF IsOwner, AtStep
  <2> QED
    BY <2>1, <2>2, Zenon
<1>3. ASSUME NEW t \in Worker, NEW k \in Lock, Handles(t, k)'
      PROVE  holder[k] = t <=> <<"disown", k>> \in ToSet(op'[t])
  <2>1. CASE t = current
    BY <1>1, <1>3, <2>1, Zenon DEF Handles, ReadsLock
  <2>2. CASE t # current
    BY <1>0, <1>1, <1>3, <2>2, Zenon DEF Handles, LockInv
  <2> QED
    BY <2>1, <2>2
<1>4. ASSUME NEW k \in Lock
      PROVE  \/ value'[k] = 1 /\ \A t \in Worker : ~IsOwner(t, k)'
             \/ /\ value'[k] = 0
                /\ \E t \in Worker : IsOwner(t, k)' /\ \A u \in Worker \ {t} : ~IsOwner(u, k)'
  BY <1>0, <1>2, Zenon DEF LockInv
<1> QED
  BY <1>0, <1>3, <1>4, Zenon DEF LockInv

\* The sema_down () of lock_acquire () succeeds.
LEMMA LockTaken ==
  ASSUME SInv, current \in Worker, NEW k \in Lock, NEW q, Then(q), holder' = holder,
         value[k] > 0, value' = [value EXCEPT ![k] = value[k] - 1],
         NEW h, NEW x, ReadsLock(op[current], {}, h, x), ReadsLock(q, {k}, {k}, {}),
         holder[k] # current
  PROVE  LockInv'
<1>0. LockInv /\ OpInv /\ value \in [Sema -> Nat] /\ Lock \subseteq Sema
  BY Zenon DEF SInv, SemaInv, Sema
<1>1. /\ op'[current] = q
      /\ \A t \in Worker : t # current => op'[t] = op[t]
  BY <1>0, OpAfter
<1>2. value[k] = 1 /\ \A t \in Worker : ~IsOwner(t, k)
  BY <1>0 DEF LockInv
<1>3. value'[k] = 0 /\ \A j \in Lock : j # k => value'[j] = value[j]
  BY <1>0, <1>2
<1>4. ASSUME NEW t \in Worker, NEW j \in Lock
      PROVE  IsOwner(t, j)' <=> IsOwner(t, j) \/ (t = current /\ j = k)
  <2>1. CASE t = current
    BY <1>1, <2>1, Zenon DEF IsOwner, AtStep, ReadsLock, StartsWith
  <2>2. CASE t # current
    BY <1>1, <2>2, Zenon DEF IsOwner, AtStep
  <2> QED
    BY <2>1, <2>2, Zenon
<1>5. ASSUME NEW t \in Worker, NEW j \in Lock, Handles(t, j)'
      PROVE  holder[j] = t <=> <<"disown", j>> \in ToSet(op'[t])
  <2>1. CASE t = current
    <3>0. op'[t] = q
      BY <1>1, <2>1
    <3>1. <<"own", j>> \in ToSet(q) \/ <<"up", j>> \in ToSet(q)
      BY <1>5, <3>0, Zenon DEF Handles
    <3>2. j \in {k} /\ <<"disown", j>> \notin ToSet(q)
      BY <3>1, Zenon DEF ReadsLock
    <3>3. j = k
      BY <3>2
    <3> QED
      BY <1>1, <2>1, <3>0, <3>2, <3>3, Zenon
  <2>2. CASE t # current
    BY <1>0, <1>1, <1>5, <2>2, Zenon DEF Handles, LockInv
  <2> QED
    BY <2>1, <2>2
<1>6. ASSUME NEW j \in Lock
      PROVE  \/ value'[j] = 1 /\ \A t \in Worker : ~IsOwner(t, j)'
             \/ /\ value'[j] = 0
                /\ \E t \in Worker : IsOwner(t, j)' /\ \A u \in Worker \ {t} : ~IsOwner(u, j)'
  <2>1. CASE j = k
    BY <1>2, <1>3, <1>4, <2>1, Zenon
  <2>2. CASE j # k
    BY <1>0, <1>3, <1>4, <2>2 DEF LockInv
  <2> QED
    BY <2>1, <2>2, Zenon
<1> QED
  BY <1>0, <1>5, <1>6, Zenon DEF LockInv

\* The sema_up () of lock_release ().
LEMMA LockGivenUp ==
  ASSUME SInv, current \in Worker, NEW k \in Lock, NEW q, Then(q), holder' = holder,
         value' = [value EXCEPT ![k] = value[k] + 1],
         ReadsLock(op[current], {k}, {k}, {}),
         NEW g, g \subseteq {k}, ReadsLock(q, {}, g, {})
  PROVE  LockInv'
<1>0. LockInv /\ OpInv /\ value \in [Sema -> Nat] /\ Lock \subseteq Sema
  BY DEF SInv, SemaInv, Sema
<1>1. /\ op'[current] = q
      /\ \A t \in Worker : t # current => op'[t] = op[t]
  BY <1>0, OpAfter
<1>2. IsOwner(current, k) /\ holder[k] # current
  BY <1>0, Zenon DEF IsOwner, AtStep, ReadsLock, StartsWith, LockInv, Handles
<1>3. value[k] = 0 /\ \A t \in Worker : t # current => ~IsOwner(t, k)
  BY <1>0, <1>2 DEF LockInv
<1>4. value'[k] = 1 /\ \A j \in Lock : j # k => value'[j] = value[j]
  BY <1>0, <1>3
<1>5. ASSUME NEW t \in Worker, NEW j \in Lock
      PROVE  IsOwner(t, j)' <=> IsOwner(t, j) /\ ~(t = current /\ j = k)
  <2>1. CASE t = current
    BY <1>1, <1>2, <2>1, Zenon DEF IsOwner, AtStep, ReadsLock, StartsWith
  <2>2. CASE t # current
    BY <1>1, <2>2 DEF IsOwner, AtStep
  <2> QED
    BY <2>1, <2>2
<1>6. ASSUME NEW t \in Worker, NEW j \in Lock, Handles(t, j)'
      PROVE  holder[j] = t <=> <<"disown", j>> \in ToSet(op'[t])
  <2>1. CASE t = current
    <3>0. op'[t] = q
      BY <1>1, <2>1
    <3>1. <<"own", j>> \in ToSet(q) \/ <<"up", j>> \in ToSet(q)
      BY <1>6, <3>0, Zenon DEF Handles
    <3>2. j \in g /\ <<"disown", j>> \notin ToSet(q)
      BY <3>1, Zenon DEF ReadsLock
    <3>3. j = k
      BY <3>2
    <3> QED
      BY <1>1, <1>2, <2>1, <3>0, <3>2, <3>3, Zenon
  <2>2. CASE t # current
    BY <1>0, <1>1, <1>6, <2>2, Zenon DEF Handles, LockInv
  <2> QED
    BY <2>1, <2>2
<1>7. ASSUME NEW j \in Lock
      PROVE  \/ value'[j] = 1 /\ \A t \in Worker : ~IsOwner(t, j)'
             \/ /\ value'[j] = 0
                /\ \E t \in Worker : IsOwner(t, j)' /\ \A u \in Worker \ {t} : ~IsOwner(u, j)'
  <2>1. CASE j = k
    BY <1>3, <1>4, <1>5, <2>1
  <2>2. CASE j # k
    BY <1>0, <1>4, <1>5, <2>2 DEF LockInv
  <2> QED
    BY <2>1, <2>2
<1> QED
  BY <1>0, <1>6, <1>7, Zenon DEF LockInv

\* k->holder is set to the thread that got the lock.
LEMMA HolderSet ==
  ASSUME SInv, current \in Worker, NEW k \in Lock, NEW q, Then(q), value' = value,
         holder' = [holder EXCEPT ![k] = current],
         ReadsLock(op[current], {k}, {k}, {}), ReadsLock(q, {}, {}, {})
  PROVE  LockInv'
<1>0. LockInv /\ OpInv
  BY DEF SInv, SemaInv
<1>1. /\ op'[current] = q
      /\ \A t \in Worker : t # current => op'[t] = op[t]
      /\ holder'[k] = current /\ \A j \in Lock : j # k => holder'[j] = holder[j]
      /\ holder' \in [Lock -> Worker \cup {NULL}]
  BY <1>0, OpAfter, Zenon DEF LockInv
<1>2. IsOwner(current, k) /\ \A t \in Worker : t # current => ~IsOwner(t, k)
  <2>1. IsOwner(current, k)
    BY <1>0, Zenon DEF IsOwner, AtStep, ReadsLock, StartsWith
  <2> QED
    BY <1>0, <2>1, Zenon DEF LockInv
<1>3. ASSUME NEW t \in Worker, NEW j \in Lock PROVE IsOwner(t, j)' <=> IsOwner(t, j)
  <2>1. CASE t = current
    BY <1>1, <2>1, Zenon DEF IsOwner, AtStep, ReadsLock, StartsWith
  <2>2. CASE t # current
    BY <1>1, <1>2, <2>2, Zenon DEF IsOwner, AtStep
  <2> QED
    BY <2>1, <2>2
<1>4. ASSUME NEW t \in Worker, NEW j \in Lock, Handles(t, j)'
      PROVE  holder'[j] = t <=> <<"disown", j>> \in ToSet(op'[t])
  <2>1. CASE t = current
    BY <1>1, <1>4, <2>1, Zenon DEF Handles, ReadsLock
  <2>2. CASE t # current
    <3>1. holder[j] = t <=> <<"disown", j>> \in ToSet(op'[t])
      BY <1>0, <1>1, <1>4, <2>2, Zenon DEF Handles, LockInv
    <3>2. holder[k] # t
      BY <1>2, <2>2 DEF IsOwner
    <3> QED
      BY <1>1, <2>2, <3>1, <3>2, Zenon
  <2> QED
    BY <2>1, <2>2, Zenon
<1>5. ASSUME NEW j \in Lock
      PROVE  \/ value'[j] = 1 /\ \A t \in Worker : ~IsOwner(t, j)'
             \/ /\ value'[j] = 0
                /\ \E t \in Worker : IsOwner(t, j)' /\ \A u \in Worker \ {t} : ~IsOwner(u, j)'
  BY <1>0, <1>3 DEF LockInv
<1> QED
  BY <1>1, <1>4, <1>5, Zenon DEF LockInv

\* k->holder is reset by the holder.
LEMMA HolderReset ==
  ASSUME SInv, current \in Worker, NEW k \in Lock, NEW q, Then(q), value' = value,
         holder[k] = current, holder' = [holder EXCEPT ![k] = NULL],
         NEW h, NEW x, ReadsLock(op[current], {}, h, x), ReadsLock(q, {k}, {k}, {})
  PROVE  LockInv'
<1>0. LockInv /\ OpInv /\ \A t \in Worker : t # NULL
  BY SynchAssumption DEF SInv, SemaInv
<1>1. /\ op'[current] = q
      /\ \A t \in Worker : t # current => op'[t] = op[t]
      /\ holder'[k] = NULL /\ \A j \in Lock : j # k => holder'[j] = holder[j]
      /\ holder' \in [Lock -> Worker \cup {NULL}]
  BY <1>0, OpAfter, Zenon DEF LockInv
<1>2. ASSUME NEW t \in Worker, NEW j \in Lock PROVE IsOwner(t, j)' <=> IsOwner(t, j)
  <2>1. CASE t = current
    BY <1>1, <2>1, Zenon DEF IsOwner, AtStep, ReadsLock, StartsWith
  <2>2. CASE t # current
    BY <1>0, <1>1, <2>2, Zenon DEF IsOwner, AtStep
  <2> QED
    BY <2>1, <2>2
<1>3. ASSUME NEW t \in Worker, NEW j \in Lock, Handles(t, j)'
      PROVE  holder'[j] = t <=> <<"disown", j>> \in ToSet(op'[t])
  <2>1. CASE t = current
    BY <1>0, <1>1, <1>3, <2>1, Zenon DEF Handles, ReadsLock
  <2>2. CASE t # current
    <3>1. holder[j] = t <=> <<"disown", j>> \in ToSet(op'[t])
      BY <1>0, <1>1, <1>3, <2>2, Zenon DEF Handles, LockInv
    <3> QED
      BY <1>0, <1>1, <2>2, <3>1, Zenon
  <2> QED
    BY <2>1, <2>2, Zenon
<1>4. ASSUME NEW j \in Lock
      PROVE  \/ value'[j] = 1 /\ \A t \in Worker : ~IsOwner(t, j)'
             \/ /\ value'[j] = 0
                /\ \E t \in Worker :
                     IsOwner(t, j)' /\ \A u \in Worker \ {t} : ~IsOwner(u, j)'
  <2>1. \/ value[j] = 1 /\ \A t \in Worker : ~IsOwner(t, j)
        \/ /\ value[j] = 0
           /\ \E t \in Worker : IsOwner(t, j) /\ \A u \in Worker \ {t} : ~IsOwner(u, j)
    BY <1>0, Zenon DEF LockInv
  <2>2. value'[j] = value[j] /\ \A t \in Worker : IsOwner(t, j)' <=> IsOwner(t, j)
    BY <1>2, Zenon
  <2> QED
    BY <2>1, <2>2, Zenon
<1> QED
  BY <1>1, <1>3, <1>4, Zenon DEF LockInv

\* No wait on a condition starts, is signalled or ends.
LEMMA CondKept ==
  ASSUME SInv, current \in Worker, NEW q, Then(q), cond_waiters' = cond_waiters,
         \A t \in Worker : value'[t] = value[t],
         NEW wakes, NEW waits, ReadsCond(op[current], wakes, waits), ReadsCond(q, wakes, waits)
  PROVE  CondInv'
<1>0. CondInv /\ OpInv
  BY DEF SInv, SemaInv
<1>1. /\ op'[current] = q
      /\ \A t \in Worker : t # current => op'[t] = op[t]
  BY <1>0, OpAfter, Zenon
<1>2. ASSUME NEW t \in Worker
      PROVE  /\ InWait(t)' <=> InWait(t)
             /\ \A u \in Worker : Wakes(u, t)' <=> Wakes(u, t)
             /\ \A c \in Cond : Listed(t, c)' <=> Listed(t, c)
  <2>1. InWait(t)' <=> InWait(t)
    BY <1>1, Zenon DEF InWait, ReadsCond
  <2>2. ASSUME NEW u \in Worker PROVE Wakes(u, t)' <=> Wakes(u, t)
    BY <1>1, Zenon DEF Wakes, ReadsCond
  <2> QED
    BY <2>1, <2>2, Zenon DEF Listed
<1>3. ASSUME NEW t \in Worker PROVE SignalOf(t)'
  <2>1. SignalOf(t)
    BY <1>0, Zenon DEF CondInv
  <2> QED
    BY <1>2, <2>1, Zenon DEF SignalOf, NotListed, NotWoken
<1> QED
  BY <1>0, <1>3, Zenon DEF CondInv

\* list_push_back ().
LEMMA PushBack ==
  ASSUME NEW S, NEW s \in Seq(S), NEW e \in S
  PROVE  /\ Append(s, e) \in Seq(S) /\ ToSet(Append(s, e)) = ToSet(s) \cup {e}
         /\ NoRepeats(s) /\ e \notin ToSet(s) => NoRepeats(Append(s, e))
<1>1. /\ Append(s, e) \in Seq(S) /\ Len(Append(s, e)) = Len(s) + 1 /\ Len(s) \in Nat
      /\ \A i \in 1 .. Len(s) : Append(s, e)[i] = s[i]
      /\ Append(s, e)[Len(s) + 1] = e
      /\ DOMAIN Append(s, e) = 1 .. Len(s) + 1 /\ DOMAIN s = 1 .. Len(s)
  OBVIOUS
<1>2. ToSet(Append(s, e)) = ToSet(s) \cup {e}
  BY <1>1 DEF ToSet
<1>3. NoRepeats(s) /\ e \notin ToSet(s) => NoRepeats(Append(s, e))
  BY <1>1 DEF NoRepeats, ToSet
<1> QED
  BY <1>1, <1>2, <1>3

\* cond_wait () puts the running thread on the condition's list, with a
\* semaphore of its own that nobody is about to up.
LEMMA WaitStarted ==
  ASSUME SInv, current \in Worker, NEW c \in Cond, NEW q, Then(q),
         cond_waiters' = [cond_waiters EXCEPT ![c] = Append(@, current)],
         value' = [value EXCEPT ![current] = 0],
         ReadsCond(op[current], {}, {}), ReadsCond(q, {}, {current})
  PROVE  CondInv'
<1>0. CondInv /\ OpInv /\ value \in [Sema -> Nat] /\ Worker \subseteq Sema
  BY DEF SInv, SemaInv, Sema
<1>1. /\ op'[current] = q
      /\ \A t \in Worker : t # current => op'[t] = op[t]
  BY <1>0, OpAfter
<1>2. NotListed(current) /\ NotWoken(current) /\ value[current] = 0
  BY <1>0, Zenon DEF CondInv, SignalOf, InWait, ReadsCond
<1>3. \A t \in Worker : value'[t] = value[t]
  BY <1>0, <1>2
<1>4. /\ cond_waiters[c] \in Seq(Worker) /\ NoRepeats(cond_waiters[c])
      /\ current \notin ToSet(cond_waiters[c])
      /\ cond_waiters'[c] = Append(cond_waiters[c], current)
      /\ \A d \in Cond : d # c => cond_waiters'[d] = cond_waiters[d]
      /\ DOMAIN cond_waiters' = Cond
      /\ cond_waiters' = [d \in Cond |-> cond_waiters'[d]]
  BY <1>0, <1>2, Zenon DEF CondInv, NotListed, Listed
<1>5. /\ cond_waiters'[c] \in Seq(Worker) /\ NoRepeats(cond_waiters'[c])
      /\ ToSet(cond_waiters'[c]) = ToSet(cond_waiters[c]) \cup {current}
  BY <1>4, PushBack
<1>6. cond_waiters' \in [Cond -> Seq(Worker)] /\ \A d \in Cond : NoRepeats(cond_waiters'[d])
  BY <1>0, <1>4, <1>5 DEF CondInv
<1>7. ASSUME NEW t \in Worker PROVE SignalOf(t)'
  <2>1. SignalOf(t)
    BY <1>0 DEF CondInv
  <2>2. \A u \in Worker : Wakes(u, t)' <=> Wakes(u, t)
    BY <1>1, Zenon DEF Wakes, ReadsCond
  <2>3. \A d \in Cond : Listed(t, d)' <=> Listed(t, d) \/ (t = current /\ d = c)
    BY <1>4, <1>5 DEF Listed
  <2>4. InWait(t)' <=> InWait(t) \/ t = current
    BY <1>1, Zenon DEF InWait, ReadsCond
  <2>5. CASE t = current
    <3>1. /\ InWait(t)' /\ NotWoken(t)' /\ value'[t] = 0
          /\ Listed(t, c)' /\ \A d \in Cond \ {c} : ~Listed(t, d)'
      BY <1>2, <1>3, <2>2, <2>3, <2>4, <2>5 DEF NotWoken, NotListed
    <3> QED
      BY <3>1 DEF SignalOf
  <2>6. CASE t # current
    BY <1>3, <2>1, <2>2, <2>3, <2>4, <2>6, Zenon DEF SignalOf, NotListed, NotWoken
  <2> QED
    BY <2>5, <2>6
<1> QED
  BY <1>6, <1>7 DEF CondInv

\* cond_signal () takes the front thread off the list and is then the only one
\* about to wake it.
LEMMA SignalStarted ==
  ASSUME SInv, current \in Worker, NEW c \in Cond, NEW q, Then(q), value' = value,
         cond_waiters[c] # <<>>, cond_waiters' = [cond_waiters EXCEPT ![c] = Tail(@)],
         ReadsCond(op[current], {}, {}), ReadsCond(q, {Head(cond_waiters[c])}, {})
  PROVE  CondInv'
<1> DEFINE h == Head(cond_waiters[c])
<1>0. CondInv /\ OpInv /\ cond_waiters[c] \in Seq(Worker)
  BY DEF SInv, SemaInv, CondInv
<1>1. /\ op'[current] = q
      /\ \A t \in Worker : t # current => op'[t] = op[t]
  BY <1>0, OpAfter, Zenon
<1>2. /\ h \in Worker /\ h \in ToSet(cond_waiters[c]) /\ Tail(cond_waiters[c]) \in Seq(Worker)
      /\ ToSet(cond_waiters[c]) = ToSet(Tail(cond_waiters[c])) \cup {h}
      /\ NoRepeats(Tail(cond_waiters[c])) /\ h \notin ToSet(Tail(cond_waiters[c]))
  BY <1>0, PopFront DEF CondInv
<1>3. /\ cond_waiters'[c] = Tail(cond_waiters[c])
      /\ \A d \in Cond : d # c => cond_waiters'[d] = cond_waiters[d]
      /\ cond_waiters' = [d \in Cond |-> cond_waiters'[d]]
  BY <1>0, Zenon DEF CondInv
<1>4. ReadsCond(q, {h}, {})
  OBVIOUS
<1> HIDE DEF h
<1>5. cond_waiters' \in [Cond -> Seq(Worker)] /\ \A d \in Cond : NoRepeats(cond_waiters'[d])
  BY <1>0, <1>2, <1>3 DEF CondInv
<1>6. ASSUME NEW t \in Worker PROVE SignalOf(t)'
  <2>1. SignalOf(t)
    BY <1>0 DEF CondInv
  <2>2. \A u \in Worker : Wakes(u, t)' <=> Wakes(u, t) \/ (u = current /\ t = h)
    BY <1>1, <1>4, Zenon DEF Wakes, ReadsCond
  <2>3. \A d \in Cond : Listed(t, d)' <=> Listed(t, d) /\ ~(t = h /\ d = c)
    BY <1>2, <1>3 DEF Listed
  <2>4. InWait(t)' <=> InWait(t)
    BY <1>1, <1>4, Zenon DEF InWait, ReadsCond
  <2>5. CASE t = h
    <3>1. Listed(t, c)
      BY <1>2, <2>5 DEF Listed
    <3>2. /\ InWait(t) /\ NotWoken(t) /\ value[t] = 0
          /\ \A d \in Cond \ {c} : ~Listed(t, d)
      BY <2>1, <3>1, Zenon DEF SignalOf, NotListed
    <3>3. InWait(t)' /\ NotListed(t)' /\ value'[t] = 0
      BY <2>3, <2>4, <2>5, <3>2, Zenon DEF NotListed
    <3>4. \E u \in Worker : Wakes(u, t)' /\ \A v \in Worker \ {u} : ~Wakes(v, t)'
      BY <2>2, <2>5, <3>2, Zenon DEF NotWoken
    <3> QED
      BY <3>3, <3>4, Zenon DEF SignalOf
  <2>6. CASE t # h
    BY <2>1, <2>2, <2>3, <2>4, <2>6, Zenon DEF SignalOf, NotListed, NotWoken
  <2> QED
    BY <2>5, <2>6
<1> QED
  BY <1>5, <1>6 DEF CondInv

\* The sema_up () of cond_signal () raises the semaphore of a thread that has
\* yet to down it.
LEMMA SignalGiven ==
  ASSUME SInv, current \in Worker, NEW s \in Worker, NEW q, Then(q),
         cond_waiters' = cond_waiters, value' = [value EXCEPT ![s] = value[s] + 1],
         ReadsCond(op[current], {s}, {}), ReadsCond(q, {}, {})
  PROVE  CondInv'
<1>0. CondInv /\ OpInv /\ value \in [Sema -> Nat] /\ Worker \subseteq Sema
  BY DEF SInv, SemaInv, Sema
<1>1. /\ op'[current] = q
      /\ \A t \in Worker : t # current => op'[t] = op[t]
  BY <1>0, OpAfter
<1>2. ASSUME NEW t \in Worker PROVE SignalOf(t)'
  <2>1. SignalOf(t)
    BY <1>0 DEF CondInv
  <2>2. \A u \in Worker : Wakes(u, t)' <=> Wakes(u, t) /\ ~(u = current /\ t = s)
    BY <1>1, Zenon DEF Wakes, ReadsCond
  <2>3. \A c \in Cond : Listed(t, c)' <=> Listed(t, c)
    BY DEF Listed
  <2>4. InWait(t)' <=> InWait(t)
    BY <1>1, Zenon DEF InWait, ReadsCond
  <2>5. CASE t = s
    <3>1. Wakes(current, t)
      BY <2>5, Zenon DEF Wakes, ReadsCond
    <3>2. /\ InWait(t) /\ NotListed(t) /\ value[t] = 0
          /\ \A v \in Worker : v # current => ~Wakes(v, t)
      BY <2>1, <3>1, Zenon DEF SignalOf, NotWoken
    <3>3. InWait(t)' /\ NotListed(t)' /\ NotWoken(t)' /\ value'[t] = 1
      BY <1>0, <2>2, <2>3, <2>4, <2>5, <3>2 DEF NotListed, NotWoken
    <3> QED
      BY <3>3, Zenon DEF SignalOf
  <2>6. CASE t # s
    <3>1. value'[t] = value[t]
      BY <1>0, <2>6
    <3> QED
      BY <2>1, <2>2, <2>3, <2>4, <2>6, <3>1, Zenon DEF SignalOf, NotListed, NotWoken
  <2> QED
    BY <2>5, <2>6, Zenon
<1> QED
  BY <1>0, <1>2 DEF CondInv

\* The sema_down () of cond_wait () succeeds.
LEMMA SignalSeen ==
  ASSUME SInv, current \in Worker, NEW q, Then(q), cond_waiters' = cond_waiters,
         value[current] > 0, value' = [value EXCEPT ![current] = value[current] - 1],
         ReadsCond(op[current], {}, {current}), ReadsCond(q, {}, {})
  PROVE  CondInv'
<1>0. CondInv /\ OpInv /\ value \in [Sema -> Nat] /\ Worker \subseteq Sema
  BY DEF SInv, SemaInv, Sema
<1>1. /\ op'[current] = q
      /\ \A t \in Worker : t # current => op'[t] = op[t]
  BY <1>0, OpAfter
<1>2. ASSUME NEW t \in Worker PROVE SignalOf(t)'
  <2>1. SignalOf(t)
    BY <1>0 DEF CondInv
  <2>2. \A u \in Worker : Wakes(u, t)' <=> Wakes(u, t)
    BY <1>1, Zenon DEF Wakes, ReadsCond
  <2>3. \A c \in Cond : Listed(t, c)' <=> Listed(t, c)
    BY Zenon DEF Listed
  <2>4. InWait(t)' <=> InWait(t) /\ t # current
    BY <1>1, Zenon DEF InWait, ReadsCond
  <2>5. CASE t = current
    <3>0. value[t] # 0
      BY <1>0, <2>5
    <3>1. NotListed(t) /\ NotWoken(t) /\ value[t] = 1
      BY <2>1, <3>0, Zenon DEF SignalOf
    <3>2. ~InWait(t)' /\ NotListed(t)' /\ NotWoken(t)' /\ value'[t] = 0
      BY <1>0, <2>2, <2>3, <2>4, <2>5, <3>1 DEF NotListed, NotWoken
    <3> QED
      BY <3>2, Zenon DEF SignalOf
  <2>6. CASE t # current
    <3>1. value'[t] = value[t]
      BY <1>0, <2>6
    <3> QED
      BY <2>1, <2>2, <2>3, <2>4, <2>6, <3>1, Zenon DEF SignalOf, NotListed, NotWoken
  <2> QED
    BY <2>5, <2>6
<1> QED
  BY <1>0, <1>2 DEF CondInv
=============================================================================

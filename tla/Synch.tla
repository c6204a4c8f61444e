-------------------------------- MODULE Synch --------------------------------
(***************************************************************************)
(* Semaphores, locks and condition variables of threads/synch.c, on top of *)
(* the scheduler of Thread.                                                *)
(*                                                                         *)
(* A call of synch.c is a sequence of interrupts-off stretches with        *)
(* interrupts on in between.  op[t] lists the ones thread t has yet to do  *)
(* of the call it is in:                                                   *)
(*   <<"down", s>>      sema_down (s), from the test of its loop on        *)
(*   <<"up", s>>        sema_up (s)                                        *)
(*   <<"own", k>>       k->holder = thread_current ()                      *)
(*   <<"disown", k>>    k->holder = NULL                                   *)
(*   <<"wait", c>>      cond_wait (c) up to its lock_release               *)
(*   <<"signal", c>>    cond_signal (c) up to its sema_up                  *)
(*   <<"broadcast", c>> the loop of cond_broadcast (c)                     *)
(* Each thread has one struct semaphore_elem, used when it is in cond_wait.*)
(***************************************************************************)
EXTENDS Thread, FiniteSets

CONSTANTS
  Counting,    \* semaphores used as such, all initialised to 0
  Lock,
  Cond,
  CondLock,    \* the lock a condition variable is used with
  NULL,
  MaxValue     \* bound: nobody ups a semaphore past this value

\* The semaphores: the counting ones, the one inside each lock, and the one
\* of each thread's semaphore_elem.
Sema == Counting \cup Lock \cup Worker

ASSUME SynchAssumption ==
  /\ Counting \cap Lock = {} /\ Worker \cap (Counting \cup Lock) = {}
  /\ CondLock \in [Cond -> Lock]
  /\ NULL \notin Worker
  /\ MaxValue \in Nat
  /\ IsFiniteSet(Worker)

VARIABLES
  value,         \* sema->value
  waiters,       \* sema->waiters
  holder,        \* lock->holder
  cond_waiters,  \* cond->waiters, by the thread each element belongs to
  op             \* what a thread has yet to do of its call

synchVars == <<value, waiters, holder, cond_waiters, op>>
allVars == <<vars, synchVars>>

-----------------------------------------------------------------------------
(* The stretches.  rest is what follows in the same call.                  *)

Then(rest) == op' = [op EXCEPT ![current] = rest]

\* sema_down (): waits in the list while the value is 0, and tests it again
\* each time it is woken.
Down(s, rest) ==
  \/ /\ value[s] = 0
     /\ waiters' = [waiters EXCEPT ![s] = ReadyInsert(@, current, priority)]
     /\ thread_block
     /\ Then(<<<<"down", s>>>> \o rest)
     /\ UNCHANGED <<value, holder, cond_waiters>>
  \/ /\ value[s] > 0
     /\ value' = [value EXCEPT ![s] = @ - 1]
     /\ Then(rest)
     /\ UNCHANGED <<vars, waiters, holder, cond_waiters>>

\* Changed form, for the mutation runs: the waiter stays on the list.
PopNoWaiter(s) ==
  /\ value' = [value EXCEPT ![s] = @ + 1]
  /\ UNCHANGED waiters

\* What sema_up () does to the semaphore.
PopWaiter(s) ==
  /\ waiters' = [waiters EXCEPT ![s] = IF @ = <<>> THEN @ ELSE Tail(@)]
  /\ value' = [value EXCEPT ![s] = @ + 1]

\* Changed form, for the mutation runs: nobody is woken.
UpNoUnblock(s, rest) ==
  /\ Goto("check")
  /\ value' = [value EXCEPT ![s] = @ + 1]
  /\ Then(rest)
  /\ UNCHANGED <<runVars, priority, sleepVars, intrVars, waiters, holder,
                 cond_waiters>>

\* Changed form, for the mutation runs: no preemption test.
UpNoCheck(s, rest) ==
  /\ IF waiters[s] = <<>>
     THEN UNCHANGED vars
     ELSE /\ Unblock(Head(waiters[s]), priority)
          /\ UNCHANGED <<current, thread_ticks, priority, sleepVars, pc, intrVars>>
  /\ PopWaiter(s)
  /\ Then(rest)
  /\ UNCHANGED <<holder, cond_waiters>>

\* sema_up () in a thread: the front waiter is unblocked before the value is
\* raised, and the preemption test follows with interrupts on.
Up(s, rest) ==
  /\ IF waiters[s] = <<>>
     THEN Goto("check") /\ UNCHANGED <<runVars, priority, sleepVars, intrVars>>
     ELSE thread_unblock(Head(waiters[s]))
  /\ PopWaiter(s)
  /\ Then(rest)
  /\ UNCHANGED <<holder, cond_waiters>>

SetHolder(k, h, rest) ==
  /\ holder' = [holder EXCEPT ![k] = h]
  /\ Then(rest)
  /\ UNCHANGED <<vars, value, waiters, cond_waiters>>

\* cond_wait (): sema_init of the waiter's semaphore and list_push_back.
Wait(c, rest) ==
  /\ value' = [value EXCEPT ![current] = 0]
  /\ waiters' = [waiters EXCEPT ![current] = <<>>]
  /\ cond_waiters' = [cond_waiters EXCEPT ![c] = Append(@, current)]
  /\ Then(rest)
  /\ UNCHANGED <<vars, holder>>

\* cond_signal (): the waiter at the front is taken off and upped; more is
\* what a broadcast goes on with.
Signal(c, more, rest) ==
  /\ IF cond_waiters[c] = <<>>
     THEN Then(rest) /\ UNCHANGED cond_waiters
     ELSE /\ cond_waiters' = [cond_waiters EXCEPT ![c] = Tail(@)]
          /\ Then(<<<<"up", Head(cond_waiters[c])>>>> \o more \o rest)
  /\ UNCHANGED <<vars, value, waiters, holder>>

Do(step, rest) ==
  /\ Calling
  /\ CASE step[1] = "down"      -> Down(step[2], rest)
       [] step[1] = "up"        -> Up(step[2], rest)
       [] step[1] = "own"       -> SetHolder(step[2], current, rest)
       [] step[1] = "disown"    -> SetHolder(step[2], NULL, rest)
       [] step[1] = "wait"      -> Wait(step[2], rest)
       [] step[1] = "signal"    -> Signal(step[2], <<>>, rest)
       [] step[1] = "broadcast" -> Signal(step[2], <<step>>, rest)

-----------------------------------------------------------------------------
(* The calls, each with what its caller must see to.                       *)

Free == Calling /\ op[current] = <<>>

Call(steps) == Free /\ Do(Head(steps), Tail(steps))

Holds(k) == holder[k] = current

sema_down(s) == Call(<<<<"down", s>>>>)
sema_up(s)   == value[s] < MaxValue /\ Call(<<<<"up", s>>>>)

AcquireSteps(k) == <<<<"down", k>>, <<"own", k>>>>

\* Changed form, for the mutation runs: the holder is reset after the semaphore was upped.
ReleaseSwapped(k) == <<<<"up", k>>, <<"disown", k>>>>

ReleaseSteps(k) == <<<<"disown", k>>, <<"up", k>>>>

lock_acquire(k) == ~Holds(k) /\ Call(AcquireSteps(k))
lock_release(k) == Holds(k) /\ Call(ReleaseSteps(k))

\* sema_try_down () and lock_try_acquire () when they succeed; when they fail
\* they change nothing.
sema_try_down(s)    == value[s] > 0 /\ sema_down(s)
lock_try_acquire(k) == value[k] > 0 /\ lock_acquire(k)

\* Changed form, for the mutation runs: the lock is released before the thread is on the list.
WaitAfterRelease(c) ==
  /\ Holds(CondLock[c])
  /\ Call(ReleaseSteps(CondLock[c]) \o <<<<"wait", c>>>>
          \o <<<<"down", current>>>> \o AcquireSteps(CondLock[c]))

cond_wait(c) ==
  /\ Holds(CondLock[c])
  /\ Call(<<<<"wait", c>>>> \o ReleaseSteps(CondLock[c])
          \o <<<<"down", current>>>> \o AcquireSteps(CondLock[c]))

cond_signal(c)    == Holds(CondLock[c]) /\ Call(<<<<"signal", c>>>>)
cond_broadcast(c) == Holds(CondLock[c]) /\ Call(<<<<"broadcast", c>>>>)

\* The next stretch of the call the running thread is in.
Continue ==
  /\ Calling
  /\ op[current] # <<>>
  /\ Do(Head(op[current]), Tail(op[current]))

\* A device's interrupt handler ups a semaphore.
IntrSemaUp(s) ==
  /\ value[s] < MaxValue
  /\ IF waiters[s] = <<>> THEN DeviceInterruptNoWaiter
                          ELSE DeviceInterrupt(Head(waiters[s]))
  /\ PopWaiter(s)
  /\ UNCHANGED <<holder, cond_waiters, op>>

\* Everything else a thread does between two calls.  It exits without locks.
OtherCall ==
  /\ Free
  /\ \/ \E t \in Worker, pri \in Priority : thread_create(t, pri)
     \/ \E pri \in Priority : thread_set_priority(pri)
     \/ \E n \in SleepTicks : timer_sleep(n)
     \/ thread_yield
     \/ thread_exit /\ \A k \in Lock : ~Holds(k)
  /\ UNCHANGED synchVars

\* Steps of Thread in which synch.c has no part.
SchedulerStep ==
  /\ \/ thread_check_preempt
     \/ At("yield") /\ thread_yield
     \/ timer_elapsed
     \/ thread_sleep
     \/ idle
     \/ timer_interrupt
     \/ HandlerStep
  /\ UNCHANGED synchVars

-----------------------------------------------------------------------------

SynchInit ==
  /\ Init
  /\ value = [s \in Sema |-> IF s \in Lock THEN 1 ELSE 0]
  /\ waiters = [s \in Sema |-> <<>>]
  /\ holder = [k \in Lock |-> NULL]
  /\ cond_waiters = [c \in Cond |-> <<>>]
  /\ op = [t \in Worker |-> <<>>]

SynchNext ==
  \/ \E s \in Counting : \/ sema_down(s) \/ sema_up(s) \/ sema_try_down(s)
                         \/ IntrSemaUp(s)
  \/ \E k \in Lock : lock_acquire(k) \/ lock_try_acquire(k) \/ lock_release(k)
  \/ \E c \in Cond : cond_wait(c) \/ cond_signal(c) \/ cond_broadcast(c)
  \/ Continue
  \/ OtherCall
  \/ SchedulerStep

SynchSpec == SynchInit /\ [][SynchNext]_allVars

-----------------------------------------------------------------------------
(* Properties.                                                             *)

Steps == ({"down", "up"} \X Sema) \cup ({"own", "disown"} \X Lock)
           \cup ({"wait", "signal", "broadcast"} \X Cond)

SynchTypeOK ==
  /\ value \in [Sema -> Nat]
  /\ waiters \in [Sema -> Seq(Worker)]
  /\ holder \in [Lock -> Worker \cup {NULL}]
  /\ cond_waiters \in [Cond -> Seq(Worker)]
  /\ op \in [Worker -> Seq(Steps)]

\* Thread t is about to do this step.
AtStep(t, step) == op[t] # <<>> /\ Head(op[t]) = step

\* A blocked thread's elem is on exactly one list, once: on Sleep_list or on
\* the waiters of the semaphore it is in sema_down () of.  The elem of any
\* other thread is on no list of waiters, so the one elem of struct thread,
\* which ready_list uses too, is never inserted twice.
ElemExclusive ==
  /\ \A s \in Sema : NoRepeats(waiters[s])
  /\ \A t \in Worker :
       LET on == {s \in Sema : t \in ToSet(waiters[s])}
       IN  /\ \A s \in on : on = {s} /\ AtStep(t, <<"down", s>>)
           /\ status[t] = "BLOCKED" <=> t \in ToSet(Sleep_list) \/ on # {}
           /\ t \in ToSet(Sleep_list) => on = {}

\* Threads that sema_up () woke, or that have yet to enter the loop of
\* sema_down ().
Retesting(s) ==
  {t \in Worker : AtStep(t, <<"down", s>>) /\ t \notin ToSet(waiters[s])}

\* No wakeup is lost: if threads wait although the value is positive, then for
\* each unit of it a thread is on its way to take it, although sema_down ()
\* may take a unit before the thread it was raised for runs.
NoLostWakeup ==
  \A s \in Sema :
    waiters[s] # <<>> => value[s] <= Cardinality(Retesting(s))

\* The threads between the sema_down () of lock_acquire () and the sema_up ()
\* of lock_release ().
Owners(k) ==
  {t \in Worker : \/ holder[k] = t
                  \/ AtStep(t, <<"own", k>>)
                  \/ AtStep(t, <<"up", k>>)}

\* Mutual exclusion: the semaphore of a lock is 1 when nobody owns it and 0
\* while exactly one thread does, in the windows in which holder is not set
\* included.
LockExclusion ==
  \A k \in Lock : value[k] + Cardinality(Owners(k)) = 1

\* A thread in cond_wait () is either still on the condition's list, or its
\* semaphore is about to be upped, or was upped and it has not seen that yet;
\* so a signal between its lock_release () and its sema_down () is kept, and
\* no signal is given to a semaphore_elem nobody waits with.
SignalNotLost ==
  \A t \in Worker :
    LET listed == {c \in Cond : t \in ToSet(cond_waiters[c])}
        waking == {u \in Worker : <<"up", t>> \in ToSet(op[u])}
    IN  Cardinality(listed) + Cardinality(waking) + value[t]
          = IF <<"down", t>> \in ToSet(op[t]) THEN 1 ELSE 0

\* The waiters of a semaphore stay in descending order of priority, so that
\* sema_up () wakes the highest.
WaitersSorted ==
  \A s \in Sema : IsOrdered(waiters[s], thread_priority_greater(priority))

\* The lists of waiters are well formed and in the order sema_up () counts on.
WaiterLists == SynchTypeOK /\ ElemExclusive /\ WaitersSorted

\* When a signal takes a thread off a condition's list, it is one of highest
\* priority ("when threads are waiting for a lock, semaphore, or condition
\* variable, the highest priority waiting thread should be awakened first").
SignalWakesHighest ==
  [][\A c \in Cond : \A t \in ToSet(cond_waiters[c]) \ ToSet(cond_waiters'[c]) :
       \A u \in ToSet(cond_waiters[c]) : priority[u] <= priority[t]]_allVars

\* A thread that waits for a lock lends its priority to the holder ("You must
\* implement priority donation for locks").
HolderInheritsPriority ==
  \A k \in Lock : \A t \in ToSet(waiters[k]) :
    holder[k] # NULL => priority[holder[k]] >= priority[t]

\* Nothing synch.c does to the scheduler is beyond the interface of thread.c:
\* every step of a call is a step of the specification of Thread, or changes
\* nothing there.  In particular thread_unblock () is only called for
\* threads that are THREAD_BLOCKED and not asleep, as it asserts.
ImplementsThread == Spec
=============================================================================

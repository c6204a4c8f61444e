------------------------------- MODULE Mlfqs -------------------------------
(***************************************************************************)
(* The 4.4BSD scheduler of threads/thread.c (the -mlfqs kernel option), on *)
(* the fixed-point numbers of threads/fixed-point.h, with one semaphore of *)
(* threads/synch.c for the threads to wait on.                             *)
(*                                                                         *)
(* As in Thread, one stretch of code with interrupts off is one action.  A *)
(* whole interrupt handler is one, too, the yield at its return included.  *)
(* The sleepers are left out: Thread has them.                             *)
(***************************************************************************)
EXTENDS KernelList, FiniteSets

SX == INSTANCE SequencesExt

CONSTANTS
  Worker, initial_thread, idle_thread, NoThread,
  PRI_MIN, PRI_DEFAULT, PRI_MAX,
  TIME_SLICE, TIMER_FREQ,
  FP_F,          \* 1 as a fixed-point number
  Nices,         \* arguments of thread_set_nice
  Priorities,    \* arguments of thread_set_priority
  MaxTick        \* bound: the clock stops here

Thread == Worker \cup {idle_thread}

VARIABLES
  current, ready_list,
  waiters, value,            \* the semaphore
  alive,                     \* the threads on all_list
  priority, nice, recent_cpu,
  load_avg,
  now,                       \* timer_ticks ()
  thread_ticks,
  pc,                        \* where a thread is between two such stretches
  child                      \* the thread that a thread is creating

listVars == <<current, ready_list, thread_ticks>>
semaVars == <<waiters, value>>
calcVars == <<priority, nice, recent_cpu, load_avg>>
vars == <<listVars, semaVars, calcVars, alive, now, pc, child>>

-----------------------------------------------------------------------------
(* Fixed-point numbers.  Division truncates towards zero.                  *)

Quot(a, b) == IF a >= 0 THEN a \div b ELSE -((-a) \div b)

fp_from_int(n) == n * FP_F
fp_to_int_zero(x) == Quot(x, FP_F)
fp_add_int(x, n) == x + n * FP_F
fp_sub_int(x, n) == x - n * FP_F
fp_mul(x, y) == Quot(x * y, FP_F)
fp_div(x, y) == Quot(x * FP_F, y)
fp_div_int(x, n) == Quot(x, n)

thread_calc_priority(cpu, n) ==
  LET pri == fp_to_int_zero(fp_sub_int(
               fp_from_int(PRI_MAX) - fp_div_int(cpu, 4), n * 2))
  IN IF pri < PRI_MIN THEN PRI_MIN ELSE IF pri > PRI_MAX THEN PRI_MAX ELSE pri

\* load_avg after a second in which ready_threads wanted to run.
NewLoad(load, ready_threads) ==
  fp_mul(fp_div(fp_from_int(59), fp_from_int(60)), load)
    + fp_div(fp_from_int(1), fp_from_int(60)) * ready_threads

thread_update_recent_cpu(cpu, n, load) ==
  fp_add_int(fp_mul(fp_div(load * 2, fp_add_int(load * 2, 1)), cpu), n)

-----------------------------------------------------------------------------
(* Lists and the scheduler.                                                *)

thread_priority_greater(pri) ==
  {ab \in Thread \X Thread : pri[ab[1]] > pri[ab[2]]}

\* A stable sort, as List shows list_sort to be.
list_sort(list, less) ==
  SX!SetToSortSeq(ToSet(list), LAMBDA a, b :
    \/ <<a, b>> \in less
    \/ <<b, a>> \notin less /\ \E i, j \in DOMAIN list :
         i < j /\ list[i] = a /\ list[j] = b)

\* schedule () with the ready list the caller leaves.
Schedule(ready) ==
  /\ current' = IF ready = << >> THEN idle_thread ELSE Head(ready)
  /\ ready_list' = IF ready = << >> THEN ready ELSE Tail(ready)
  /\ thread_ticks' = 0

WithCurrent(ready, pri) ==
  IF current = idle_thread THEN ready
  ELSE list_insert_ordered(ready, current, thread_priority_greater(pri))

FrontIsHigher(ready, pri) ==
  ready # << >> /\ pri[Head(ready)] > pri[current]

At(label) == pc[current] = label
Calling == At("run") /\ current # idle_thread
Goto(label) == pc' = [pc EXCEPT ![current] = label]

-----------------------------------------------------------------------------
(* What the running thread does.                                           *)

\* thread_create (): init_thread () puts the new thread on all_list ...
thread_create(t, pri) ==
  /\ Calling
  /\ t \notin alive \cup {initial_thread}
  /\ alive' = alive \cup {t}
  /\ priority' = [priority EXCEPT ![t] = pri]
  /\ nice' = [nice EXCEPT ![t] = 0]
  /\ recent_cpu' = [recent_cpu EXCEPT ![t] = 0]
  /\ child' = [child EXCEPT ![current] = t]
  /\ Goto("inherit")
  /\ UNCHANGED <<listVars, semaVars, load_avg, now>>

\* ... it gets its parent's nice and recent_cpu, and the priority they give ...
Inherit ==
  /\ At("inherit")
  /\ nice' = [nice EXCEPT ![child[current]] = nice[current]]
  /\ recent_cpu' = [recent_cpu EXCEPT ![child[current]] = recent_cpu[current]]
  /\ priority' = [priority EXCEPT ![child[current]] =
                    thread_calc_priority(recent_cpu[current], nice[current])]
  /\ Goto("unblock")
  /\ UNCHANGED <<listVars, semaVars, load_avg, alive, now, child>>

\* ... and is made ready.
Unblock ==
  /\ At("unblock")
  /\ ready_list' = list_insert_ordered(ready_list, child[current],
                                       thread_priority_greater(priority))
  /\ pc' = [pc EXCEPT ![current] = "check", ![child[current]] = "run"]
  /\ child' = [child EXCEPT ![current] = NoThread]
  /\ UNCHANGED <<current, thread_ticks, semaVars, calcVars, alive, now>>

thread_set_priority(pri) ==
  /\ Calling
  /\ priority' = [priority EXCEPT ![current] = pri]
  /\ Goto("check")
  /\ UNCHANGED <<listVars, semaVars, nice, recent_cpu, load_avg, alive, now, child>>

thread_set_nice(n) ==
  /\ Calling
  /\ nice' = [nice EXCEPT ![current] = n]
  /\ priority' = [priority EXCEPT ![current] =
                    thread_calc_priority(recent_cpu[current], n)]
  /\ Goto("check")
  /\ UNCHANGED <<listVars, semaVars, recent_cpu, load_avg, alive, now, child>>

\* thread_check_preempt () in a thread: interrupts are on between the test
\* and thread_yield ().
thread_check_preempt ==
  /\ At("check")
  /\ Goto(IF FrontIsHigher(ready_list, priority) THEN "yield" ELSE "run")
  /\ UNCHANGED <<listVars, semaVars, calcVars, alive, now, child>>

thread_yield ==
  /\ At("yield") \/ Calling
  /\ Schedule(WithCurrent(ready_list, priority))
  /\ Goto("run")
  /\ UNCHANGED <<semaVars, calcVars, alive, now, child>>

\* The struct thread is freed, but for initial_thread's, which stays unused.
thread_exit ==
  /\ Calling
  /\ alive' = alive \ {current}
  /\ priority' = [priority EXCEPT ![current] = PRI_DEFAULT]
  /\ nice' = [nice EXCEPT ![current] = 0]
  /\ recent_cpu' = [recent_cpu EXCEPT ![current] = 0]
  /\ Schedule(ready_list)
  /\ UNCHANGED <<semaVars, load_avg, now, pc, child>>

\* sema_down (): a thread that was woken tests the value again.
sema_down ==
  /\ Calling \/ At("down")
  /\ IF value = 0
     THEN /\ waiters' = list_insert_ordered(waiters, current,
                                            thread_priority_greater(priority))
          /\ Schedule(ready_list)
          /\ Goto("down")
          /\ UNCHANGED value
     ELSE /\ value' = value - 1
          /\ Goto("run")
          /\ UNCHANGED <<waiters, listVars>>
  /\ UNCHANGED <<calcVars, alive, now, child>>

\* What sema_up () does before its preemption test.  The value is at most 1
\* where the semaphore is used as a lock.
Up ==
  /\ value = 0
  /\ value' = 1
  /\ waiters' = IF waiters = << >> THEN waiters ELSE Tail(waiters)
  /\ UNCHANGED <<calcVars, alive, now, child>>

Woken == IF waiters = << >> THEN ready_list
         ELSE list_insert_ordered(ready_list, Head(waiters),
                                  thread_priority_greater(priority))

sema_up ==
  /\ Calling
  /\ Up
  /\ ready_list' = Woken
  /\ Goto("check")
  /\ UNCHANGED <<current, thread_ticks>>

\* The loop of idle ().
idle ==
  /\ current = idle_thread
  /\ ready_list # << >>
  /\ Schedule(ready_list)
  /\ UNCHANGED <<semaVars, calcVars, alive, now, pc, child>>

-----------------------------------------------------------------------------
(* Interrupts.                                                             *)

\* The end of a handler that leaves ready, pri and slice in thread_ticks.
Return(yields, ready, pri, slice) ==
  IF yields
  THEN Schedule(WithCurrent(ready, pri))
  ELSE ready_list' = ready /\ thread_ticks' = slice /\ UNCHANGED current

\* sema_up () in a device's interrupt handler.
DeviceInterrupt ==
  /\ Up
  /\ Return(FrontIsHigher(Woken, priority), Woken, priority, thread_ticks)
  /\ UNCHANGED pc

\* The priorities thread_mlfqs_tick () leaves at tick n.
TickPriority(n, cpu) ==
  IF n % TIME_SLICE = 0
  THEN [t \in Thread |-> IF t \in alive \ {idle_thread}
                         THEN thread_calc_priority(cpu[t], nice[t])
                         ELSE priority[t]]
  ELSE priority

\* Changed form, for the mutation runs: the list is not sorted again.
TickReady_unsorted(n, pri) == ready_list

\* ... and the ready list.
TickReady(n, pri) ==
  IF n % TIME_SLICE = 0
  THEN list_sort(ready_list, thread_priority_greater(pri)) ELSE ready_list

\* The load average after tick n.
TickLoad(n) ==
  IF n % TIMER_FREQ = 0
  THEN NewLoad(load_avg, Len(ready_list) + IF current = idle_thread THEN 0 ELSE 1)
  ELSE load_avg

\* recent_cpu of every thread after tick n, given the new load_avg.
TickCpu(n, load) ==
  LET counted == [t \in Thread |->
        IF t = current /\ t # idle_thread THEN fp_add_int(recent_cpu[t], 1)
        ELSE recent_cpu[t]]
  IN [t \in Thread |->
        IF n % TIMER_FREQ = 0 /\ t \in alive
        THEN thread_update_recent_cpu(counted[t], nice[t], load) ELSE counted[t]]

\* timer_interrupt (), thread_tick (), thread_wake_up (), whose preemption test comes
\* before the new priorities, and thread_mlfqs_tick ().
timer_interrupt ==
  /\ now < MaxTick
  /\ now' = now + 1
  /\ load_avg' = TickLoad(now')
  /\ recent_cpu' = TickCpu(now', load_avg')
  /\ priority' = TickPriority(now', recent_cpu')
  /\ LET ready == TickReady(now', priority')
         yields == \/ thread_ticks + 1 >= TIME_SLICE
                   \/ FrontIsHigher(ready_list, priority)
                   \/ now' % TIME_SLICE = 0 /\ FrontIsHigher(ready, priority')
     IN Return(yields, ready, priority', thread_ticks + 1)
  /\ UNCHANGED <<semaVars, nice, alive, pc, child>>

-----------------------------------------------------------------------------

\* The state thread_start () leaves; main's priority was never computed.
Init ==
  /\ current = initial_thread
  /\ ready_list = << >>
  /\ waiters = << >> /\ value = 0
  /\ alive = {initial_thread, idle_thread}
  /\ priority = [t \in Thread |-> IF t = idle_thread THEN PRI_MIN ELSE PRI_DEFAULT]
  /\ nice = [t \in Thread |-> 0]
  /\ recent_cpu = [t \in Thread |-> 0]
  /\ load_avg = 0
  /\ now = 0
  /\ thread_ticks = 0
  /\ pc = [t \in Thread |-> "run"]
  /\ child = [t \in Thread |-> NoThread]

\* The bound of the model: no tick is left for the idle thread to wait for.
ClockBound == now = MaxTick /\ UNCHANGED vars

Next ==
  \/ \E t \in Worker : thread_create(t, PRI_DEFAULT)
  \/ Inherit
  \/ Unblock
  \/ \E pri \in Priorities : thread_set_priority(pri)
  \/ \E n \in Nices : thread_set_nice(n)
  \/ thread_check_preempt
  \/ thread_yield
  \/ thread_exit
  \/ sema_down
  \/ sema_up
  \/ idle
  \/ DeviceInterrupt
  \/ timer_interrupt
  \/ ClockBound

Spec == Init /\ [][Next]_vars

-----------------------------------------------------------------------------
(* Properties.                                                             *)

\* Priorities stay between PRI_MIN and PRI_MAX whatever recent_cpu and nice
\* are, the idle thread keeps PRI_MIN, and the thread lists hold workers.
TypeOK ==
  /\ priority \in [Thread -> PRI_MIN .. PRI_MAX]
  /\ priority[idle_thread] = PRI_MIN
  /\ current \in alive
  /\ ready_list \in Seq(Worker) /\ waiters \in Seq(Worker)
  /\ recent_cpu \in [Thread -> Int] /\ nice \in [Thread -> Int]
  /\ value \in 0 .. 1 /\ thread_ticks \in 0 .. TIME_SLICE - 1

\* The ready list is in the order of the priorities the threads have now,
\* however they were recomputed since a thread was put on it.
ReadyInOrder == IsOrdered(ready_list, thread_priority_greater(priority))

\* A thread that is not just about to test for preemption or to yield runs
\* only while no ready thread has a higher priority: thread_set_nice yields,
\* and the tick that recomputes the priorities preempts.
HighestRuns ==
  pc[current] \notin {"check", "yield"} => ~FrontIsHigher(ready_list, priority)

\* From the tick that recomputes them to the next one, the priority of every
\* thread is the one its recent_cpu and nice give: no thread runs at a time
\* slice's boundary with scheduler data of before it.
Creating(t) == \E u \in Thread : child[u] = t /\ pc[u] = "inherit"

PriorityFresh ==
  now > 0 /\ now % TIME_SLICE = 0 =>
    \A t \in alive \ {idle_thread} :
      Creating(t) \/ priority[t] = thread_calc_priority(recent_cpu[t], nice[t])

\* The semaphore's waiters are kept in descending order of priority, so that
\* sema_up () wakes the highest (the comment in sema_down ()).
WaitersInOrder == IsOrdered(waiters, thread_priority_greater(priority))
=============================================================================

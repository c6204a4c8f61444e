------------------------------- MODULE Thread -------------------------------
(***************************************************************************)
(* The kernel thread scheduler of threads/thread.c, with the alarm clock   *)
(* (timer_sleep of devices/timer.c) and the dispatch of external           *)
(* interrupts (intr_handler of threads/interrupt.c), as the "threads"      *)
(* kernel builds them: without USERPROG, so that thread_tick wakes the     *)
(* sleepers and ages the ready threads.  The 4.4BSD scheduler is off.      *)
(*                                                                         *)
(* There is one CPU.  A stretch of code that runs with interrupts off is   *)
(* one action; an interrupt may come between any two actions of a thread.  *)
(* While a handler runs (handler # "none") no thread takes a step, so the  *)
(* steps of a handler are never interleaved with anything else.            *)
(***************************************************************************)
EXTENDS KernelList

CONSTANTS
  Worker,              \* structs thread other than the idle thread's
  initial_thread,      \* the one that runs main()
  idle_thread,         \* the one next_thread_to_run falls back on
  PRI_MIN, PRI_DEFAULT, PRI_MAX,
  TIME_SLICE,          \* ticks a thread may run before it must yield
  thread_prior_aging,  \* the -aging kernel option
  SleepTicks,          \* arguments timer_sleep is called with
  MaxTick              \* bound: the clock stops counting here

Thread == Worker \cup {idle_thread}
Priority == PRI_MIN .. PRI_MAX

ASSUME ThreadAssumption ==
  /\ initial_thread \in Worker
  /\ idle_thread \notin Worker
  /\ PRI_MIN \in Int /\ PRI_MAX \in Int
  /\ PRI_DEFAULT \in Priority
  /\ TIME_SLICE \in Nat \ {0}
  /\ thread_prior_aging \in BOOLEAN
  /\ MaxTick \in Nat
  /\ SleepTicks \subseteq Int

VARIABLES
  status,           \* t->status, "FREE" when no such struct thread exists
  priority,         \* t->priority
  current,          \* running_thread ()
  ready_list,
  Sleep_list,
  wakeup_tick,      \* t->wakeup_tick, and start + ticks in timer_sleep
  pc,               \* where a thread is between two interrupts-off stretches
  ticks,            \* timer ticks since boot
  thread_ticks,     \* ticks since the last thread switch
  handler,          \* what the external interrupt handler does next
  yield_on_return

runVars   == <<status, current, ready_list, thread_ticks>>
sleepVars == <<Sleep_list, wakeup_tick>>
intrVars  == <<ticks, handler, yield_on_return>>
vars == <<runVars, priority, sleepVars, pc, intrVars>>

-----------------------------------------------------------------------------
(* Comparison functions and list operations.                               *)

\* The list_less_func of ready_list and of the waiters of a semaphore.
thread_priority_greater(pri) ==
  {ab \in Thread \X Thread : pri[ab[1]] > pri[ab[2]]}

wakeup_tick_less(wake) ==
  {ab \in Thread \X Thread : wake[ab[1]] < wake[ab[2]]}

\* Changed form, for the mutation runs: threads of any priority go to the back.
ReadyInsertFIFO(list, t, pri) == Append(list, t)

\* ready_list after t was put on it.
ReadyInsert(list, t, pri) ==
  list_insert_ordered(list, t, thread_priority_greater(pri))

\* schedule (), next_thread_to_run () and thread_schedule_tail (): the front
\* of the ready list, or else the idle thread, becomes the running thread and
\* starts a new time slice; the struct thread of a dying thread is freed,
\* unless it is initial_thread's.  ready and stat are the list and the
\* statuses the caller leaves.
Schedule(ready, stat) ==
  LET next == IF ready = <<>> THEN idle_thread ELSE Head(ready)
      gone == {t \in Worker \ {initial_thread} : stat[t] = "DYING"}
  IN  /\ ready_list' = IF ready = <<>> THEN ready ELSE Tail(ready)
      /\ status' = [t \in Thread |-> IF t = next THEN "RUNNING"
                                     ELSE IF t \in gone THEN "FREE"
                                     ELSE stat[t]]
      /\ current' = next
      /\ thread_ticks' = 0

\* thread_yield (): the idle thread is not put on the ready list.
Yield ==
  Schedule(IF current = idle_thread THEN ready_list
           ELSE ReadyInsert(ready_list, current, priority),
           [status EXCEPT ![current] = "READY"])

\* thread_unblock (): does not preempt.
Unblock(t, pri) ==
  /\ ready_list' = ReadyInsert(ready_list, t, pri)
  /\ status' = [status EXCEPT ![t] = "READY"]

\* The test of thread_check_preempt ().
FrontIsHigher(ready, pri) ==
  ready # <<>> /\ pri[Head(ready)] > pri[current]

\* thread_check_preempt () when intr_context () holds.
CheckPreemptInHandler(ready, pri) ==
  yield_on_return' = (yield_on_return \/ FrontIsHigher(ready, pri))

-----------------------------------------------------------------------------
(* What the running thread does.                                           *)

\* The running thread is at a point of its code where interrupts are on.
At(label) == handler = "none" /\ pc[current] = label

\* ... and is about to call one of the functions below.
Calling == At("run") /\ current # idle_thread

Goto(label) == pc' = [pc EXCEPT ![current] = label]

\* thread_create (): the new thread is blocked until it is unblocked at the
\* end, then the caller checks whether it is preempted.
thread_create(t, pri) ==
  /\ Calling
  /\ status[t] = "FREE"
  /\ priority' = [priority EXCEPT ![t] = pri]
  /\ wakeup_tick' = [wakeup_tick EXCEPT ![t] = 0]
  /\ Unblock(t, priority')
  /\ pc' = [pc EXCEPT ![t] = "run", ![current] = "check"]
  /\ UNCHANGED <<current, thread_ticks, Sleep_list, intrVars>>

thread_set_priority(pri) ==
  /\ Calling
  /\ priority' = [priority EXCEPT ![current] = pri]
  /\ Goto("check")
  /\ UNCHANGED <<runVars, sleepVars, intrVars>>

\* thread_block (), called by whatever code the thread waits in.
thread_block ==
  /\ Calling
  /\ Schedule(ready_list, [status EXCEPT ![current] = "BLOCKED"])
  /\ UNCHANGED <<priority, sleepVars, pc, intrVars>>

\* A blocked thread that thread_unblock () may be called for by the code it
\* waits in: every blocked one but the sleepers, which thread_wake_up ()
\* wakes, and the idle thread.
Unblockable(t) ==
  t \in Worker /\ status[t] = "BLOCKED" /\ t \notin ToSet(Sleep_list)

\* thread_unblock () followed by thread_check_preempt (), as in sema_up ().
thread_unblock(t) ==
  /\ Calling
  /\ Unblockable(t)
  /\ Unblock(t, priority)
  /\ Goto("check")
  /\ UNCHANGED <<current, thread_ticks, priority, sleepVars, intrVars>>

\* thread_check_preempt () in a thread: interrupts are on again between the
\* test and the call of thread_yield ().
thread_check_preempt ==
  /\ At("check")
  /\ Goto(IF FrontIsHigher(ready_list, priority) THEN "yield" ELSE "run")
  /\ UNCHANGED <<runVars, priority, sleepVars, intrVars>>

thread_yield ==
  /\ At("yield") \/ Calling
  /\ Yield
  /\ Goto("run")
  /\ UNCHANGED <<priority, sleepVars, intrVars>>

thread_exit ==
  /\ Calling
  /\ Schedule(ready_list, [status EXCEPT ![current] = "DYING"])
  /\ UNCHANGED <<priority, sleepVars, pc, intrVars>>

\* timer_sleep (): reads the clock into start ...
timer_sleep(n) ==
  /\ Calling
  /\ ticks + n <= MaxTick
  /\ wakeup_tick' = [wakeup_tick EXCEPT ![current] = ticks + n]
  /\ Goto("elapsed")
  /\ UNCHANGED <<runVars, priority, Sleep_list, intrVars>>

\* ... reads it again to see whether the time has passed already ...
timer_elapsed ==
  /\ At("elapsed")
  /\ Goto(IF ticks < wakeup_tick[current] THEN "sleep" ELSE "run")
  /\ UNCHANGED <<runVars, priority, sleepVars, intrVars>>

\* Changed form, for the mutation runs: Sleep_list is not kept in order.
SleepFIFO ==
  /\ At("sleep")
  /\ Sleep_list' = Append(Sleep_list, current)
  /\ Schedule(ready_list, [status EXCEPT ![current] = "BLOCKED"])
  /\ Goto("run")
  /\ UNCHANGED <<priority, wakeup_tick, intrVars>>

\* ... and sleeps until start + ticks, which may have passed meanwhile.
thread_sleep ==
  /\ At("sleep")
  /\ Sleep_list' = list_insert_ordered(Sleep_list, current,
                                       wakeup_tick_less(wakeup_tick))
  /\ Schedule(ready_list, [status EXCEPT ![current] = "BLOCKED"])
  /\ Goto("run")
  /\ UNCHANGED <<priority, wakeup_tick, intrVars>>

\* The loop of idle (): blocks, and is scheduled again only when the ready
\* list is empty.
idle ==
  /\ At("run") /\ current = idle_thread
  /\ Schedule(ready_list, [status EXCEPT ![current] = "BLOCKED"])
  /\ UNCHANGED <<priority, sleepVars, pc, intrVars>>

-----------------------------------------------------------------------------
(* External interrupts.                                                    *)

\* Changed form, for the mutation runs: the tick does not call thread_wake_up ().
TickWithoutWakeUp ==
  /\ handler = "none"
  /\ ticks' = IF ticks < MaxTick THEN ticks + 1 ELSE ticks
  /\ thread_ticks' = thread_ticks + 1
  /\ yield_on_return' = (thread_ticks' >= TIME_SLICE)
  /\ handler' = "return"
  /\ UNCHANGED <<status, current, ready_list, priority, sleepVars, pc>>

\* intr_handler () enters timer_interrupt (), and thread_tick () counts the
\* tick against the time slice.
timer_interrupt ==
  /\ handler = "none"
  /\ ticks' = IF ticks < MaxTick THEN ticks + 1 ELSE ticks
  /\ thread_ticks' = thread_ticks + 1
  /\ yield_on_return' = (thread_ticks' >= TIME_SLICE)
  /\ handler' = "wake"
  /\ UNCHANGED <<status, current, ready_list, priority, sleepVars, pc>>

\* Changed form, for the mutation runs: the sleeper is not taken off Sleep_list.
WakeNotRemoved ==
  /\ handler = "wake"
  /\ Sleep_list # <<>>
  /\ wakeup_tick[Head(Sleep_list)] <= ticks
  /\ Unblock(Head(Sleep_list), priority)
  /\ UNCHANGED <<current, thread_ticks, priority, sleepVars, pc, intrVars>>

\* Changed form, for the mutation runs: a sleeper is woken a tick early.
WakeTickEarly ==
  /\ handler = "wake"
  /\ Sleep_list # <<>>
  /\ wakeup_tick[Head(Sleep_list)] <= ticks + 1
  /\ Sleep_list' = Tail(Sleep_list)
  /\ Unblock(Head(Sleep_list), priority)
  /\ UNCHANGED <<current, thread_ticks, priority, wakeup_tick, pc, intrVars>>

\* thread_wake_up (): one pass of its loop ...
WakeNext ==
  /\ handler = "wake"
  /\ Sleep_list # <<>>
  /\ wakeup_tick[Head(Sleep_list)] <= ticks
  /\ Sleep_list' = Tail(Sleep_list)
  /\ Unblock(Head(Sleep_list), priority)
  /\ UNCHANGED <<current, thread_ticks, priority, wakeup_tick, pc, intrVars>>

\* ... and its end: the loop stops at the first thread that is not due.
WakeEnd ==
  /\ handler = "wake"
  /\ Sleep_list # <<>> => wakeup_tick[Head(Sleep_list)] > ticks
  /\ CheckPreemptInHandler(ready_list, priority)
  /\ handler' = IF thread_prior_aging THEN "age" ELSE "return"
  /\ UNCHANGED <<runVars, priority, sleepVars, pc, ticks>>

\* Changed form, for the mutation runs: nobody is aged.
AgingNobody ==
  /\ handler = "age"
  /\ CheckPreemptInHandler(ready_list, priority)
  /\ handler' = "return"
  /\ UNCHANGED <<runVars, priority, sleepVars, pc, ticks>>

thread_aging ==
  /\ handler = "age"
  /\ priority' = [t \in Thread |->
                    IF t \in ToSet(ready_list) /\ priority[t] < PRI_MAX
                    THEN priority[t] + 1 ELSE priority[t]]
  /\ CheckPreemptInHandler(ready_list, priority')
  /\ handler' = "return"
  /\ UNCHANGED <<runVars, sleepVars, pc, ticks>>

\* A device's interrupt handler that ups the semaphore thread t waits for ...
DeviceInterrupt(t) ==
  /\ handler = "none"
  /\ Unblockable(t)
  /\ Unblock(t, priority)
  /\ yield_on_return' = FrontIsHigher(ready_list', priority)
  /\ handler' = "return"
  /\ UNCHANGED <<current, thread_ticks, priority, sleepVars, pc, ticks>>

\* ... or one that nobody waits for.
DeviceInterruptNoWaiter ==
  /\ handler = "none"
  /\ yield_on_return' = FrontIsHigher(ready_list, priority)
  /\ handler' = "return"
  /\ UNCHANGED <<runVars, priority, sleepVars, pc, ticks>>

\* The end of intr_handler ().
IntrReturn ==
  /\ handler = "return"
  /\ handler' = "none"
  /\ IF yield_on_return THEN Yield ELSE UNCHANGED runVars
  /\ yield_on_return' = FALSE
  /\ UNCHANGED <<priority, sleepVars, pc, ticks>>

-----------------------------------------------------------------------------

\* The state thread_start () leaves: the idle thread has run once, has upped
\* idle_started and was preempted by the initial thread.
Init ==
  /\ status = [t \in Thread |-> CASE t = initial_thread -> "RUNNING"
                                  [] t = idle_thread -> "READY"
                                  [] OTHER -> "FREE"]
  /\ priority = [t \in Thread |-> IF t = idle_thread THEN PRI_MIN
                                  ELSE PRI_DEFAULT]
  /\ current = initial_thread
  /\ ready_list = <<>>
  /\ Sleep_list = <<>>
  /\ wakeup_tick = [t \in Thread |-> 0]
  /\ pc = [t \in Thread |-> "run"]
  /\ ticks = 0
  /\ thread_ticks = 0
  /\ handler = "none"
  /\ yield_on_return = FALSE

ThreadStep ==
  \/ \E t \in Worker, pri \in Priority : thread_create(t, pri)
  \/ \E pri \in Priority : thread_set_priority(pri)
  \/ \E t \in Worker : thread_unblock(t)
  \/ \E n \in SleepTicks : timer_sleep(n)
  \/ thread_block
  \/ thread_check_preempt
  \/ thread_yield
  \/ thread_exit
  \/ timer_elapsed
  \/ thread_sleep
  \/ idle

HandlerStep == WakeNext \/ WakeEnd \/ thread_aging \/ IntrReturn

Next ==
  \/ ThreadStep
  \/ timer_interrupt
  \/ \E t \in Worker : DeviceInterrupt(t)
  \/ DeviceInterruptNoWaiter
  \/ HandlerStep

Spec == Init /\ [][Next]_vars

-----------------------------------------------------------------------------
(* Properties.                                                             *)

Status == {"FREE", "RUNNING", "READY", "BLOCKED", "DYING"}

TypeOK ==
  /\ status \in [Thread -> Status]
  /\ priority \in [Thread -> Priority]
  /\ current \in Thread
  /\ ready_list \in Seq(Worker)
  /\ Sleep_list \in Seq(Worker)
  /\ wakeup_tick \in [Thread -> Int]
  /\ pc \in [Thread -> {"run", "check", "yield", "elapsed", "sleep"}]
  /\ ticks \in 0 .. MaxTick
  /\ thread_ticks \in 0 .. TIME_SLICE
  /\ handler \in {"none", "wake", "age", "return"}
  /\ yield_on_return \in BOOLEAN

\* Exactly the current thread is THREAD_RUNNING, which thread_current ()
\* asserts on every call; a thread's elem is on ready_list exactly when it is
\* THREAD_READY, and on Sleep_list only when it is THREAD_BLOCKED, once, so
\* that the two uses of the one elem never overlap.  The idle thread is on
\* neither list.
ListsMatchStatus ==
  /\ \A t \in Thread : status[t] = "RUNNING" <=> t = current
  /\ NoRepeats(ready_list) /\ NoRepeats(Sleep_list)
  /\ \A t \in Worker : status[t] = "READY" <=> t \in ToSet(ready_list)
  /\ \A t \in ToSet(Sleep_list) : status[t] = "BLOCKED"
  /\ status[idle_thread] \in {"RUNNING", "READY", "BLOCKED"}

\* ready_list stays in descending order of priority although it is sorted
\* only by insertion: nothing changes the order of the priorities of threads
\* that are on it, thread_aging () with its stop at PRI_MAX included.
ReadyListSorted == IsOrdered(ready_list, thread_priority_greater(priority))

\* Sleep_list stays in ascending order of wakeup_tick.
SleepListSorted == IsOrdered(Sleep_list, wakeup_tick_less(wakeup_tick))

\* Whenever the running thread is in its own code, and not on its way through
\* thread_check_preempt (), no ready thread has a higher priority.
HighestPriorityRuns ==
  handler = "none" /\ pc[current] \notin {"check", "yield"} =>
    \A t \in ToSet(ready_list) : priority[t] <= priority[current]

\* A thread that is past its timer_sleep () call has slept at least as many
\* ticks as it asked for, whatever ticks passed between its reads of the
\* clock and thread_sleep ().
SleepsLongEnough ==
  \A t \in Worker :
    t \notin ToSet(Sleep_list) /\ pc[t] = "run" => wakeup_tick[t] <= ticks

\* When thread_wake_up () is done with a tick, nobody who is due is asleep.
NobodyOversleeps ==
  [][handler = "wake" /\ handler' # "wake" =>
       \A t \in ToSet(Sleep_list') : wakeup_tick'[t] > ticks']_vars
=============================================================================

------------------------------ MODULE MCThread ------------------------------
(*****************************************************************************)
(* The two schedulers, checked in one run: a behaviour is one of Thread      *)
(* (three threads besides the idle thread, two priorities) or one of         *)
(* Mlfqs, which leaves the state of Thread as it was. The variables of       *)
(* Mlfqs hold Unused in the behaviours of Thread. The created threads are    *)
(* interchangeable.                                                          *)
(*****************************************************************************)
EXTENDS Thread, TLC

CONSTANTS t1, t2, Unused

VARIABLES part,     \* the component of this behaviour
          mlfqs_current, mlfqs_ready_list, waiters, value, alive,
          mlfqs_priority, nice, recent_cpu, load_avg, now, mlfqs_thread_ticks,
          mlfqs_pc, child

CreatedThreads == Permutations({t1, t2})

\* The 4.4BSD scheduler has eight priorities here, a fixed-point 1 is 256, a time
\* slice and a second are two ticks.  In M three threads set their nice value, in N
\* two that also call thread_set_priority ().

M == INSTANCE Mlfqs WITH current <- mlfqs_current,
  ready_list <- mlfqs_ready_list, priority <- mlfqs_priority,
  thread_ticks <- mlfqs_thread_ticks, pc <- mlfqs_pc, PRI_MIN <- 0,
  PRI_DEFAULT <- 3, PRI_MAX <- 7, TIME_SLICE <- 2, TIMER_FREQ <- 2,
  FP_F <- 256, NoThread <- Unused, Nices <- {-1}, Priorities <- {},
  MaxTick <- 2
N == INSTANCE Mlfqs WITH current <- mlfqs_current,
  ready_list <- mlfqs_ready_list, priority <- mlfqs_priority,
  thread_ticks <- mlfqs_thread_ticks, pc <- mlfqs_pc, PRI_MIN <- 0,
  PRI_DEFAULT <- 3, PRI_MAX <- 7, TIME_SLICE <- 2, TIMER_FREQ <- 2,
  FP_F <- 256, NoThread <- Unused, Worker <- {initial_thread, t1},
  Nices <- {5}, Priorities <- {2}, MaxTick <- 4

otherVars == <<mlfqs_current, mlfqs_ready_list, waiters, value, alive,
  mlfqs_priority, nice, recent_cpu, load_avg, now, mlfqs_thread_ticks,
  mlfqs_pc, child>>
SchedulerVars == <<part, vars, otherVars>>

SchedulerInit ==
  /\ Init
  /\ \/ /\ part = "thread"
        /\ mlfqs_current = Unused /\ mlfqs_ready_list = Unused
        /\ waiters = Unused /\ value = Unused /\ alive = Unused
        /\ mlfqs_priority = Unused /\ nice = Unused /\ recent_cpu = Unused
        /\ load_avg = Unused /\ now = Unused /\ mlfqs_thread_ticks = Unused
        /\ mlfqs_pc = Unused /\ child = Unused
     \/ /\ part = "mlfqs" /\ M!Init
     \/ /\ part = "mlfqs_set" /\ N!Init

SchedulerNext ==
  \/ part = "thread" /\ Next /\ UNCHANGED <<part, otherVars>>
  \/ /\ part = "mlfqs" /\ M!Next
     /\ UNCHANGED <<part, vars>>
  \/ /\ part = "mlfqs_set" /\ N!Next
     /\ UNCHANGED <<part, vars>>

SchedulerSpec == SchedulerInit /\ [][SchedulerNext]_SchedulerVars

-----------------------------------------------------------------------------
(* Properties: those of Thread, which the behaviours of the 4.4BSD scheduler *)
(* leave in its initial state, and those of Mlfqs in its behaviours.         *)

\* Under -mlfqs ready_list is in the order of the priorities threads have now, no ready
\* thread has a higher priority than the one that runs, and after the tick that
\* recomputes them priorities follow recent_cpu and nice, as long as nobody calls
\* thread_set_priority (); they stay between PRI_MIN and PRI_MAX whatever recent_cpu
\* and nice are (thread_calc_priority (), thread_mlfqs_tick ()).
MlfqsOrder ==
  /\ part = "mlfqs" => M!TypeOK /\ M!ReadyInOrder /\ M!HighestRuns /\ M!PriorityFresh
  /\ part = "mlfqs_set" => N!TypeOK /\ N!ReadyInOrder /\ N!HighestRuns
=============================================================================

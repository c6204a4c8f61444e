------------------------------- MODULE MCSynch -------------------------------
(***************************************************************************)
(* Instances of Synch for TLC.  One lock, one semaphore and one condition  *)
(* variable together are too much to explore; a behaviour of KitSpec uses  *)
(* a part of them, its kit:                                                *)
(*   "lock"  the semaphore, the lock and three priorities, no sleep        *)
(*   "elem"  the semaphore and timer_sleep (), which share a thread's elem *)
(*   "cond"  the condition variable and its lock                           *)
(***************************************************************************)
EXTENDS Synch, TLC

CONSTANTS t1, t2, sm, lk, cv

CreatedThreads == Permutations({t1, t2})

\* One lock guards every condition variable.
OneLock == [c \in Cond |-> lk]

VARIABLE kit

\* What a behaviour with another kit never does.
Awake == pc[current] # "elapsed"
NoSema == value[sm] = 0 /\ waiters[sm] = <<>>
NoLock == value[lk] = 1
NoCond == cond_waiters[cv] = <<>>
TwoPriorities == \A t \in Worker : priority[t] < PRI_MAX

InKit ==
  \/ kit = "lock" /\ Awake /\ NoCond
  \/ kit = "elem" /\ NoLock /\ TwoPriorities
  \/ kit = "cond" /\ Awake /\ NoSema /\ TwoPriorities

KitInit == SynchInit /\ kit \in {"lock", "elem", "cond"}

KitSpec == KitInit /\ [][SynchNext /\ UNCHANGED kit /\ InKit']_<<allVars, kit>>
=============================================================================

----------------------------- MODULE Interrupts -----------------------------
(***************************************************************************)
(* Interrupt dispatch (threads/interrupt.c, with the entry and the exit of *)
(* threads/intr-stubs.S): gates and handlers, the two interrupt            *)
(* controllers, external interrupts that come between any two steps of a   *)
(* thread, system calls and faults that are interrupted themselves, and    *)
(* the thread switches that happen inside all of them.                     *)
(* The hardware is external: the controllers deliver the request of        *)
(* highest priority that none in service holds back, IRQ 2 of the master   *)
(* being the slave; a request may vanish and leave a spurious 0x27 or      *)
(* 0x2f.                                                                   *)
(***************************************************************************)
EXTENDS Integers, Sequences, FiniteSets, FiniteSetsExt, SequencesExt

CONSTANTS Thread,
          Devices,      \* the IRQs of the machine, of 0 .. 15
          Handled,      \* those that have a handler
          Internal,     \* vectors of exceptions and system calls
          Traps,        \* those registered with INTR_ON
          MaxRaise,     \* bound: requests of all devices and spurious ones
          MaxDepth,     \* bound: internal interrupts inside each other
          OFF, ON

VectorsAssumption ==
  /\ Devices \subseteq 0 .. 15 /\ 2 \notin Devices /\ Handled \subseteq Devices
  /\ Internal \subseteq (0 .. 31) \cup (48 .. 255) /\ Traps \subseteq Internal

VARIABLES idt,             \* the interrupt flag each vector's gate leaves
          intr_handlers,   \* the vectors that have a handler
          unexpected_cnt,
          in_external_intr, yield_on_return,
          frames,          \* the interrupt frames on each thread's stack
          cur, level,      \* the running thread, and its interrupt flag
          saved,           \* old_level of the threads that are switched out
          irr, isr,        \* IRQs requested and in service, in both controllers
          raised,          \* requests so far
          booted, panicked

cpu == <<frames, cur, level, saved>>
table == <<idt, intr_handlers, booted>>
pic == <<irr, isr, raised>>
flags == <<in_external_intr, yield_on_return>>
vars == <<table, unexpected_cnt, flags, cpu, pic, panicked>>

Vectors == Internal \cup {32 + d : d \in Devices} \cup {39, 47}
External(v) == v >= 32 /\ v < 48
Top(t) == Last(frames[t])
InBody(t) == frames[t] # <<>> /\ Top(t).phase = "body"

-----------------------------------------------------------------------------
(* Registration *)

\* A trap gate leaves the interrupt flag as it was, an interrupt gate clears it.
register_handler(v, lev) ==
  /\ v \notin intr_handlers
  /\ idt' = [idt EXCEPT ![v] = lev]
  /\ intr_handlers' = intr_handlers \cup {v}

intr_register_ext(v) == External(v) /\ register_handler(v, OFF)
intr_register_int(v, lev) == ~External(v) /\ register_handler(v, lev)

\* The devices and exceptions register while interrupts are off.
Register ==
  /\ ~booted
  /\ \/ \E d \in Handled : intr_register_ext(32 + d)
     \/ \E v \in Internal : intr_register_int(v, IF v \in Traps THEN ON ELSE OFF)
  /\ UNCHANGED <<unexpected_cnt, flags, cpu, pic, booted, panicked>>

\* thread_start (): intr_enable ().
Start ==
  /\ ~booted /\ intr_handlers = {32 + d : d \in Handled} \cup Internal
  /\ booted' = TRUE
  /\ level' = ON
  /\ UNCHANGED <<idt, intr_handlers, unexpected_cnt, flags, frames, cur, saved, pic, panicked>>

-----------------------------------------------------------------------------
(* The hardware *)

Raise(d) ==
  /\ raised < MaxRaise
  /\ irr' = irr \cup {d}
  /\ raised' = raised + 1
  /\ UNCHANGED <<table, unexpected_cnt, flags, cpu, isr, panicked>>

\* Priorities: master 0, 1, then the slave's 8 to 15 through line 2, then 3 to 7.
Rank(d) == IF d < 2 THEN d ELSE IF d >= 8 THEN d - 6 ELSE d + 7
Lines(d) == IF d >= 8 THEN {d, 2} ELSE {d}
\* A controller whose line d is in service holds back d and what ranks below it.
Deliverable(d) ==
  /\ d \in irr
  /\ \A s \in isr : s >= 8 /\ d >= 8 => d < s
  /\ \A s \in isr : s < 8 => (IF d >= 8 THEN 2 ELSE d) < s

\* The interrupt enters through its gate, and intr_handler () begins.
Enter(v) ==
  LET inner == IF idt[v] = OFF THEN OFF ELSE level
      frame == [vec |-> v, phase |-> "body", level |-> level]
  IN /\ frames' = [frames EXCEPT ![cur] = Append(@, frame)]
     /\ level' = inner
     /\ panicked' = (External(v) /\ (inner = ON \/ in_external_intr))
     /\ in_external_intr' = (in_external_intr \/ External(v))
     /\ yield_on_return' = (yield_on_return /\ ~External(v))
     /\ UNCHANGED <<cur, saved>>

Deliver(d) ==
  /\ ~panicked /\ level = ON
  /\ Deliverable(d) /\ \A e \in Devices : Deliverable(e) => Rank(d) <= Rank(e)
  /\ irr' = irr \ {d} /\ isr' = isr \cup Lines(d)
  /\ Enter(32 + d)
  /\ UNCHANGED <<table, unexpected_cnt, raised>>

\* A spurious interrupt: not in service, but for line 2 when it is the slave's.
Spurious(v) ==
  /\ ~panicked /\ level = ON /\ raised < MaxRaise /\ isr = {}
  /\ raised' = raised + 1
  /\ isr' = IF v = 47 THEN {2} ELSE {}
  /\ Enter(v)
  /\ UNCHANGED <<table, unexpected_cnt, irr>>

-----------------------------------------------------------------------------
(* Threads and handlers *)

\* The running thread, or an internal handler in it, makes a system call or
\* faults.
Trap(v) ==
  /\ ~panicked /\ booted /\ ~in_external_intr
  /\ frames[cur] = <<>> \/ InBody(cur)
  /\ Len(frames[cur]) < MaxDepth
  /\ Enter(v)
  /\ UNCHANGED <<table, unexpected_cnt, pic>>

\* intr_enable () and intr_disable () in a thread or an internal handler.
SetLevel ==
  /\ ~panicked /\ booted /\ ~in_external_intr
  /\ frames[cur] = <<>> \/ InBody(cur)
  /\ level' = IF level = ON THEN OFF ELSE ON
  /\ UNCHANGED <<table, unexpected_cnt, flags, frames, cur, saved, pic, panicked>>

\* thread_yield () or a block: another thread goes on, with its own level.
Switch(t, old) ==
  \E u \in Thread \ {t} :
    /\ cur' = u
    /\ saved' = [saved EXCEPT ![t] = old]
    /\ level' = saved[u]

Yield ==
  /\ ~panicked /\ booted /\ ~in_external_intr
  /\ frames[cur] = <<>> \/ InBody(cur)
  /\ Switch(cur, level)
  /\ UNCHANGED <<table, unexpected_cnt, flags, frames, pic, panicked>>

intr_yield_on_return == yield_on_return' = TRUE
unexpected_interrupt(v) == unexpected_cnt' = [unexpected_cnt EXCEPT ![v] = @ + 1]

Phase(p) == frames' = [frames EXCEPT ![cur][Len(frames[cur])].phase = p]

\* The handler returns; one of an external interrupt may have called
\* intr_yield_on_return ().
HandlerCall ==
  /\ ~panicked /\ InBody(cur)
  /\ LET v == Top(cur).vec
     IN /\ IF v \in intr_handlers \cup {39, 47} THEN UNCHANGED unexpected_cnt
           ELSE unexpected_interrupt(v)
        /\ \/ UNCHANGED yield_on_return
           \/ External(v) /\ v \in intr_handlers /\ intr_yield_on_return
        /\ Phase(IF External(v) THEN "end" ELSE "exit")
  /\ UNCHANGED <<table, in_external_intr, cur, level, saved, pic, panicked>>

\* An end of interrupt takes the highest request in service from each
\* controller it is sent to.
Acked(s) == IF s = {} THEN {} ELSE s \ {Min(s)}
Master == {d \in isr : d < 8}
Slave == {d \in isr : d >= 8}

\* Changed form, for the mutation runs: none for an interrupt without a handler.
pic_end_of_interrupt_handled(v) ==
  isr' = IF v \notin intr_handlers THEN isr
         ELSE Acked(Master) \cup IF v >= 40 THEN Acked(Slave) ELSE Slave

pic_end_of_interrupt(v) ==
  isr' = Acked(Master) \cup IF v >= 40 THEN Acked(Slave) ELSE Slave

\* Changed form, for the mutation runs: it yields before it is done.
Complete_yield_first ==
  /\ ~panicked /\ frames[cur] # <<>> /\ Top(cur).phase = "end"
  /\ Phase("exit")
  /\ pic_end_of_interrupt(Top(cur).vec)
  /\ IF yield_on_return
     THEN Switch(cur, level) /\ UNCHANGED in_external_intr
     ELSE in_external_intr' = FALSE /\ UNCHANGED <<cur, level, saved>>
  /\ panicked' = (level = ON \/ ~in_external_intr)
  /\ UNCHANGED <<table, unexpected_cnt, yield_on_return, irr, raised>>

\* The end of intr_handler () for an external interrupt.
Complete ==
  /\ ~panicked /\ frames[cur] # <<>> /\ Top(cur).phase = "end"
  /\ Phase("exit")
  /\ in_external_intr' = FALSE
  /\ pic_end_of_interrupt(Top(cur).vec)
  /\ IF yield_on_return THEN Switch(cur, level) ELSE UNCHANGED <<cur, level, saved>>
  /\ panicked' = (level = ON \/ ~in_external_intr)
  /\ UNCHANGED <<table, unexpected_cnt, yield_on_return, irr, raised>>

\* intr_exit: iret.
Exit ==
  /\ ~panicked /\ frames[cur] # <<>> /\ Top(cur).phase = "exit"
  /\ level' = Top(cur).level
  /\ frames' = [frames EXCEPT ![cur] = Front(@)]
  /\ UNCHANGED <<table, unexpected_cnt, flags, cur, saved, pic, panicked>>

Init ==
  /\ idt = [v \in Vectors |-> OFF] /\ intr_handlers = {} /\ booted = FALSE
  /\ unexpected_cnt = [v \in Vectors |-> 0]
  /\ in_external_intr = FALSE /\ yield_on_return = FALSE
  /\ frames = [t \in Thread |-> <<>>] /\ cur \in Thread
  /\ level = OFF /\ saved = [t \in Thread |-> ON]
  /\ irr = {} /\ isr = {} /\ raised = 0 /\ panicked = FALSE

Step == \/ Register \/ Start
        \/ \E d \in Devices : Deliver(d)
        \/ HandlerCall \/ Complete \/ Exit

Next == \/ Step
        \/ \E d \in Devices : Raise(d)
        \/ \E v \in {39, 47} : Spurious(v)
        \/ \E v \in Internal : Trap(v)
        \/ SetLevel \/ Yield

Spec == Init /\ [][Next]_vars

-----------------------------------------------------------------------------
\* Interrupts without a handler are counted, but for the two that may be
\* spurious.
TypeOK ==
  /\ idt \in [Vectors -> {OFF, ON}] /\ intr_handlers \subseteq Vectors
  /\ \A v \in Vectors : unexpected_cnt[v] \in 0 .. MaxRaise
  /\ \A v \in intr_handlers \cup {39, 47} : unexpected_cnt[v] = 0
  /\ in_external_intr \in BOOLEAN /\ yield_on_return \in BOOLEAN
  /\ \A t \in Thread : \A n \in DOMAIN frames[t] :
       /\ frames[t][n].vec \in Vectors /\ frames[t][n].level \in {OFF, ON}
       /\ frames[t][n].phase \in {"body", "end", "exit"}
  /\ cur \in Thread /\ level \in {OFF, ON} /\ saved \in [Thread -> {OFF, ON}]
  /\ irr \subseteq Devices /\ isr \subseteq 0 .. 15

\* The assertions of intr_handler () hold.
AssertsHold == ~panicked

Handling == {f \in Thread \X (1 .. MaxDepth + 1) :
  /\ f[2] \in DOMAIN frames[f[1]] /\ External(frames[f[1]][f[2]].vec)
  /\ frames[f[1]][f[2]].phase # "exit"}

\* "External interrupts run with interrupts turned off, so they never nest":
\* at most one is being handled, by the running thread on top of its stack, with
\* interrupts off, and intr_context () says so, whatever threads were switched
\* out in the middle of an interrupt of their own.
ContextExact ==
  booted /\ ~panicked =>
    /\ Cardinality(Handling) <= 1
    /\ in_external_intr <=> Handling # {}
    /\ \A f \in Handling : f = <<cur, Len(frames[cur])>> /\ level = OFF

\* Nothing is left in service when no interrupt is handled: each was
\* acknowledged at every controller it came through, and no acknowledgement,
\* not that of a spurious interrupt either, was one too many for another.
ServiceExact ==
  IF Handling = {} THEN isr = {}
  ELSE LET v == Top(cur).vec
       IN \/ isr = Lines(v - 32)
          \/ v = 39 /\ isr = {}
          \/ v = 47 /\ isr = {2}
=============================================================================

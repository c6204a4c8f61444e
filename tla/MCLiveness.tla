----------------------------- MODULE MCLiveness -----------------------------
(*****************************************************************************)
(* What must eventually happen, in one run: a behaviour is one of the        *)
(* component it has chosen at the start, with the fairness of that           *)
(* component. Variables of the same name are one variable here, and those    *)
(* a component does not have hold Unused.                                    *)
(*****************************************************************************)
EXTENDS Integers, Sequences, FiniteSets

CONSTANTS Worker, initial_thread, idle_thread, PRI_MIN, PRI_DEFAULT, PRI_MAX,
          TIME_SLICE, thread_prior_aging, SleepTicks, MaxTick, Proc,
          init_process, NoProc, LoadResult, ExitStatus, p1, p2, Reader, Writer,
          None, INTQ_BUFSIZE, MaxIn, MaxOut, Caller, t1, Sector, Value,
          NoValue, Kind, Failing, MaxSpurious, Devices, Handled, Internal,
          Traps, MaxRaise, OFF, ON, Unused

VARIABLES part,     \* the component of this behaviour
          status, priority, current, ready_list, Sleep_list, wakeup_tick, pc,
          ticks, thread_ticks, handler, yield_on_return, allocated, Child_list,
          Child, Load_sema, Exit_sema, Destroy_sema, is_loaded, exit_status,
          has_pagedir, has_files, is_user_process, exec_result, wait_result,
          rx, tx, mode, ier, uart, console_lock, console_lock_depth, halted,
          kind, is_ata, lock, expecting_interrupt, completion_wait, chan,
          media, call, spurious, idt, intr_handlers, unexpected_cnt,
          in_external_intr, frames, cur, level, saved, irr, isr, raised,
          booted, panicked

\* The serial port (without a handler), an IDE channel, and system calls.
Irqs == {4, 14}
HandledIrqs == {14}
InternalVectors == {48}

\* p1 and p2 are interchangeable, and so are t1 and t2: of a parent and a child, and
\* of a caller of the disk, the properties look at one representative each.
Family == {<<init_process, p1>>, <<p1, p2>>}

T == INSTANCE Thread
P == INSTANCE Process WITH initial_thread <- init_process
C == INSTANCE Console WITH MaxDepth <- 1
D == INSTANCE Disk WITH Thread <- Caller
I == INSTANCE Interrupts WITH MaxDepth <- 1, Thread <- Caller

ASSUME P!ProcessAssumption

vars == <<part, status, priority, current, ready_list, Sleep_list, wakeup_tick,
          pc, ticks, thread_ticks, handler, yield_on_return, allocated,
          Child_list, Child, Load_sema, Exit_sema, Destroy_sema, is_loaded,
          exit_status, has_pagedir, has_files, is_user_process, exec_result,
          wait_result, rx, tx, mode, ier, uart, console_lock,
          console_lock_depth, halted, kind, is_ata, lock, expecting_interrupt,
          completion_wait, chan, media, call, spurious, idt, intr_handlers,
          unexpected_cnt, in_external_intr, frames, cur, level, saved, irr,
          isr, raised, booted, panicked>>

Init ==
  \/ /\ part = "thread" /\ T!Init
     /\ allocated = Unused /\ Child_list = Unused /\ Child = Unused
     /\ Load_sema = Unused /\ Exit_sema = Unused /\ Destroy_sema = Unused
     /\ is_loaded = Unused /\ exit_status = Unused /\ has_pagedir = Unused
     /\ has_files = Unused /\ is_user_process = Unused /\ exec_result = Unused
     /\ wait_result = Unused /\ rx = Unused /\ tx = Unused /\ mode = Unused
     /\ ier = Unused /\ uart = Unused /\ console_lock = Unused
     /\ console_lock_depth = Unused /\ halted = Unused /\ kind = Unused
     /\ is_ata = Unused /\ lock = Unused /\ expecting_interrupt = Unused
     /\ completion_wait = Unused /\ chan = Unused /\ media = Unused
     /\ call = Unused /\ spurious = Unused /\ idt = Unused
     /\ intr_handlers = Unused /\ unexpected_cnt = Unused
     /\ in_external_intr = Unused /\ frames = Unused /\ cur = Unused
     /\ level = Unused /\ saved = Unused /\ irr = Unused /\ isr = Unused
     /\ raised = Unused /\ booted = Unused /\ panicked = Unused
  \/ /\ part = "process" /\ P!Init
     /\ status = Unused /\ priority = Unused /\ current = Unused
     /\ ready_list = Unused /\ Sleep_list = Unused /\ wakeup_tick = Unused
     /\ ticks = Unused /\ thread_ticks = Unused /\ handler = Unused
     /\ yield_on_return = Unused /\ rx = Unused /\ tx = Unused /\ mode = Unused
     /\ ier = Unused /\ uart = Unused /\ console_lock = Unused
     /\ console_lock_depth = Unused /\ halted = Unused /\ kind = Unused
     /\ is_ata = Unused /\ lock = Unused /\ expecting_interrupt = Unused
     /\ completion_wait = Unused /\ chan = Unused /\ media = Unused
     /\ call = Unused /\ spurious = Unused /\ idt = Unused
     /\ intr_handlers = Unused /\ unexpected_cnt = Unused
     /\ in_external_intr = Unused /\ frames = Unused /\ cur = Unused
     /\ level = Unused /\ saved = Unused /\ irr = Unused /\ isr = Unused
     /\ raised = Unused /\ booted = Unused /\ panicked = Unused
  \/ /\ part = "console" /\ C!Init
     /\ status = Unused /\ priority = Unused /\ current = Unused
     /\ ready_list = Unused /\ Sleep_list = Unused /\ wakeup_tick = Unused
     /\ ticks = Unused /\ thread_ticks = Unused /\ handler = Unused
     /\ yield_on_return = Unused /\ allocated = Unused /\ Child_list = Unused
     /\ Child = Unused /\ Load_sema = Unused /\ Exit_sema = Unused
     /\ Destroy_sema = Unused /\ is_loaded = Unused /\ exit_status = Unused
     /\ has_pagedir = Unused /\ has_files = Unused /\ is_user_process = Unused
     /\ exec_result = Unused /\ wait_result = Unused /\ kind = Unused
     /\ is_ata = Unused /\ lock = Unused /\ expecting_interrupt = Unused
     /\ completion_wait = Unused /\ chan = Unused /\ media = Unused
     /\ call = Unused /\ spurious = Unused /\ idt = Unused
     /\ intr_handlers = Unused /\ unexpected_cnt = Unused
     /\ in_external_intr = Unused /\ frames = Unused /\ cur = Unused
     /\ level = Unused /\ saved = Unused /\ irr = Unused /\ isr = Unused
     /\ raised = Unused /\ booted = Unused /\ panicked = Unused
  \/ /\ part = "disk" /\ D!Init
     /\ status = Unused /\ priority = Unused /\ current = Unused
     /\ ready_list = Unused /\ Sleep_list = Unused /\ wakeup_tick = Unused
     /\ ticks = Unused /\ thread_ticks = Unused /\ handler = Unused
     /\ yield_on_return = Unused /\ allocated = Unused /\ Child_list = Unused
     /\ Child = Unused /\ Load_sema = Unused /\ Exit_sema = Unused
     /\ Destroy_sema = Unused /\ is_loaded = Unused /\ exit_status = Unused
     /\ has_pagedir = Unused /\ has_files = Unused /\ is_user_process = Unused
     /\ exec_result = Unused /\ wait_result = Unused /\ rx = Unused
     /\ tx = Unused /\ mode = Unused /\ ier = Unused /\ uart = Unused
     /\ console_lock = Unused /\ console_lock_depth = Unused /\ halted = Unused
     /\ idt = Unused /\ intr_handlers = Unused /\ unexpected_cnt = Unused
     /\ in_external_intr = Unused /\ frames = Unused /\ cur = Unused
     /\ level = Unused /\ saved = Unused /\ irr = Unused /\ isr = Unused
     /\ raised = Unused /\ booted = Unused /\ panicked = Unused
  \/ /\ part = "interrupts" /\ I!Init
     /\ status = Unused /\ priority = Unused /\ current = Unused
     /\ ready_list = Unused /\ Sleep_list = Unused /\ wakeup_tick = Unused
     /\ pc = Unused /\ ticks = Unused /\ thread_ticks = Unused
     /\ handler = Unused /\ allocated = Unused /\ Child_list = Unused
     /\ Child = Unused /\ Load_sema = Unused /\ Exit_sema = Unused
     /\ Destroy_sema = Unused /\ is_loaded = Unused /\ exit_status = Unused
     /\ has_pagedir = Unused /\ has_files = Unused /\ is_user_process = Unused
     /\ exec_result = Unused /\ wait_result = Unused /\ rx = Unused
     /\ tx = Unused /\ mode = Unused /\ ier = Unused /\ uart = Unused
     /\ console_lock = Unused /\ console_lock_depth = Unused /\ halted = Unused
     /\ kind = Unused /\ is_ata = Unused /\ lock = Unused
     /\ expecting_interrupt = Unused /\ completion_wait = Unused
     /\ chan = Unused /\ media = Unused /\ call = Unused /\ spurious = Unused

Next ==
  \/ /\ part = "thread" /\ T!Next
     /\ UNCHANGED <<part, allocated, Child_list, Child, Load_sema, Exit_sema,
                   Destroy_sema, is_loaded, exit_status, has_pagedir,
                   has_files, is_user_process, exec_result, wait_result, rx,
                   tx, mode, ier, uart, console_lock, console_lock_depth,
                   halted, kind, is_ata, lock, expecting_interrupt,
                   completion_wait, chan, media, call, spurious, idt,
                   intr_handlers, unexpected_cnt, in_external_intr, frames,
                   cur, level, saved, irr, isr, raised, booted, panicked>>
  \/ /\ part = "process" /\ P!Next
     /\ UNCHANGED <<part, status, priority, current, ready_list, Sleep_list,
                   wakeup_tick, ticks, thread_ticks, handler, yield_on_return,
                   rx, tx, mode, ier, uart, console_lock, console_lock_depth,
                   halted, kind, is_ata, lock, expecting_interrupt,
                   completion_wait, chan, media, call, spurious, idt,
                   intr_handlers, unexpected_cnt, in_external_intr, frames,
                   cur, level, saved, irr, isr, raised, booted, panicked>>
  \/ /\ part = "console" /\ C!Next
     /\ UNCHANGED <<part, status, priority, current, ready_list, Sleep_list,
                   wakeup_tick, ticks, thread_ticks, handler, yield_on_return,
                   allocated, Child_list, Child, Load_sema, Exit_sema,
                   Destroy_sema, is_loaded, exit_status, has_pagedir,
                   has_files, is_user_process, exec_result, wait_result, kind,
                   is_ata, lock, expecting_interrupt, completion_wait, chan,
                   media, call, spurious, idt, intr_handlers, unexpected_cnt,
                   in_external_intr, frames, cur, level, saved, irr, isr,
                   raised, booted, panicked>>
  \/ /\ part = "disk" /\ D!Next
     /\ UNCHANGED <<part, status, priority, current, ready_list, Sleep_list,
                   wakeup_tick, ticks, thread_ticks, handler, yield_on_return,
                   allocated, Child_list, Child, Load_sema, Exit_sema,
                   Destroy_sema, is_loaded, exit_status, has_pagedir,
                   has_files, is_user_process, exec_result, wait_result, rx,
                   tx, mode, ier, uart, console_lock, console_lock_depth,
                   halted, idt, intr_handlers, unexpected_cnt,
                   in_external_intr, frames, cur, level, saved, irr, isr,
                   raised, booted, panicked>>
  \/ /\ part = "interrupts" /\ I!Next
     /\ UNCHANGED <<part, status, priority, current, ready_list, Sleep_list,
                   wakeup_tick, pc, ticks, thread_ticks, handler, allocated,
                   Child_list, Child, Load_sema, Exit_sema, Destroy_sema,
                   is_loaded, exit_status, has_pagedir, has_files,
                   is_user_process, exec_result, wait_result, rx, tx, mode,
                   ier, uart, console_lock, console_lock_depth, halted, kind,
                   is_ata, lock, expecting_interrupt, completion_wait, chan,
                   media, call, spurious>>

Spec == Init /\ [][Next]_vars

\* Each component's fairness, in the behaviours of its own.
\*  - The timer keeps interrupting (strongly: the interrupt controller holds a tick
\*    that arrives during another device's handler) and a handler runs to its end.
\*    Nothing is assumed of the threads: one may loop for ever.
\*  - A process that can go on inside the kernel does.
\*  - The port sends the byte it has, its interrupt and the boot sequence make
\*    progress, and a thread that was woken inside input_getc () or serial_putc () goes
\*    on. No byte is assumed to arrive, and nobody to read or to print.
\*  - The disk answers, its interrupts are delivered, and callers go on.
\*  - The processor takes a request once interrupts are on again and again, and a
\*    thread that turned them off turns them on again.
Fairness ==
  /\ SF_(T!vars)(part = "thread" /\ T!timer_interrupt)
  /\ WF_(T!vars)(part = "thread" /\ T!HandlerStep)
  /\ \A p \in Proc : WF_(P!vars)(part = "process" /\ P!KernelStep(p))
  /\ WF_(C!vars)(part = "console" /\ halted = "no" /\ C!serial_init_queue)
  /\ WF_(C!vars)(part = "console" /\ halted = "no" /\ C!serial_interrupt)
  /\ WF_(C!vars)(part = "console" /\ halted = "no" /\ ~uart.thre /\ C!Uart /\ uart'.thre)
  /\ \A t \in Reader \cup Writer :
       WF_(C!vars)(/\ part = "console" /\ halted = "no" /\ pc[t] \in {"woken", "retry", "lock"}
                   /\ C!Getc(t) \/ C!Putc(t) \/ C!Locked(t))
  /\ WF_(D!vars)(part = "disk" /\ ~D!Panicked /\ D!Channel)
  /\ WF_(D!vars)(part = "disk" /\ ~D!Panicked /\ D!interrupt_handler)
  /\ WF_(D!vars)(part = "disk" /\ ~D!Panicked /\ D!Boot)
  /\ \A t \in Caller : WF_(D!vars)(part = "disk" /\ ~D!Panicked /\ pc[t] # "idle" /\ D!Step(t))
  /\ WF_(I!vars)(part = "interrupts" /\ I!Register)
  /\ WF_(I!vars)(part = "interrupts" /\ I!Start)
  /\ \A d \in Devices : SF_(I!vars)(part = "interrupts" /\ I!Deliver(d))
  /\ WF_(I!vars)(part = "interrupts" /\ I!HandlerCall)
  /\ WF_(I!vars)(part = "interrupts" /\ I!Complete)
  /\ WF_(I!vars)(part = "interrupts" /\ I!Exit)
  /\ SF_(I!vars)(part = "interrupts" /\ I!SetLevel /\ level = OFF)

FairSpec == Spec /\ Fairness

-----------------------------------------------------------------------------
(* Properties. *)

\* With -aging every thread that becomes ready gets to run, even against threads of
\* higher priority that never block (thread_aging ()).
ReadyThreadsRun ==
  \A t \in Worker : part = "thread" /\ status[t] = "READY" ~> part = "thread" /\ status[t] = "RUNNING"

\* Every sleeper is woken (thread_wake_up ()).
SleepersWake ==
  \A t \in Worker :
    part = "thread" /\ t \in T!ToSet(Sleep_list) ~> part = "thread" /\ t \notin T!ToSet(Sleep_list)

\* A call of process_execute () returns, and one of process_wait () once the child
\* exits; a process that has exited, or failed to load, is freed at the latest when
\* its parent exits, whichever of the two exits first (process_exit ()).
ProcessesProgress ==
  /\ \A p \in Proc \ {p2} :
       part = "process" /\ P!At(p, "find") ~> part = "process" /\ (P!At(p, "user") \/ ~P!Running)
  /\ \A <<p, c>> \in Family :
       part = "process" /\ P!At(p, "await_exit") /\ Child[p] = c /\ pc[c] \in P!Exiting
         ~> part = "process" /\ (P!At(p, "user") \/ ~P!Running)
  /\ \A <<p, c>> \in Family :
       part = "process" /\ c \in P!ToSet(Child_list[p]) /\ pc[p] \in P!Exiting /\ pc[c] \in P!Exiting
         ~> part = "process" /\ (c \notin allocated \/ ~P!Running)

\* A thread that waits for room in the transmit queue gets on with its print; a byte at
\* the port is taken if the input buffer has room for it, also after a time with the
\* receive interrupt off, and a thread that waits in input_getc () gets it
\* (serial_interrupt ()); a thread that has the disk channel gives it back (ide.c); and
\* every interrupt request is delivered, one without a handler as well (intr_handler ()).
DevicesProgress ==
  /\ \A t \in Writer :
       part = "console" /\ pc[t] \in {"wait", "woken"}
         ~> part = "console" /\ (pc[t] = "print" \/ halted # "no")
  /\ part = "console" /\ uart.dr /\ ~C!intq_full(rx)
       ~> part = "console" /\ (~uart.dr \/ C!intq_full(rx) \/ halted # "no")
  /\ \A t \in Reader :
       part = "console" /\ pc[t] # "idle" /\ uart.dr
         ~> part = "console" /\ (pc[t] = "idle" \/ halted # "no")
  /\ part = "disk" /\ lock = t1 ~> part = "disk" /\ (lock # t1 \/ D!Panicked)
  /\ \A d \in Devices : part = "interrupts" /\ d \in irr ~> part = "interrupts" /\ d \notin irr
=============================================================================

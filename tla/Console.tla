------------------------------- MODULE Console -------------------------------
(***************************************************************************)
(* Console input and output: the queues shared with interrupt handlers     *)
(* (devices/intq.c), the serial port (devices/serial.c), the input buffer  *)
(* (devices/input.c), the console lock (lib/kernel/console.c) and the end  *)
(* of a kernel (debug_panic ()).                                           *)
(*                                                                         *)
(* A stretch with interrupts off is one action: it ends where the thread   *)
(* blocks.  Bytes are numbered in the order they enter a queue, so that a  *)
(* queue in order holds consecutive numbers; entered and left count them.  *)
(* The locks are those of Synch: a thread that waits for one takes it in   *)
(* an action of its own, some time after it is free.                       *)
(***************************************************************************)
EXTENDS Integers, FiniteSets

CONSTANTS
  Reader,          \* threads that read with input_getc ()
  Writer,          \* threads that print
  None,
  INTQ_BUFSIZE,
  MaxIn, MaxOut,   \* bounds: bytes that enter each queue
  MaxDepth         \* bound: nested prints

Thread == Reader \cup Writer

ConsoleAssumption ==
  /\ Reader \cap Writer = {} /\ None \notin Thread
  /\ INTQ_BUFSIZE \in Nat \ {0, 1} /\ MaxIn \in Nat /\ MaxOut \in Nat /\ MaxDepth \in Nat

VARIABLES
  rx,                  \* struct intq buffer of input.c
  tx,                  \* struct intq txq of serial.c
  mode,                \* of the serial port; UNINIT counts as POLL, as init_poll () leaves
                       \* the queue empty
  ier,                 \* the UART's interrupt enable register
  uart,                \* its status: dr, a byte is there; thre, it can take one
  console_lock,        \* the holder of the lock, or None
  console_lock_depth,
  pc,                  \* where a thread is
  halted               \* "no", the panic the kernel is in, or "off"

vars == <<rx, tx, mode, ier, uart, console_lock, console_lock_depth, pc, halted>>
console == <<console_lock, console_lock_depth>>

-----------------------------------------------------------------------------
(* Interrupt queues.                                                       *)

next(pos) == (pos + 1) % INTQ_BUFSIZE

intq_init ==
  [buf |-> [i \in 0 .. INTQ_BUFSIZE - 1 |-> 0], head |-> 0, tail |-> 0,
   not_full |-> None, not_empty |-> None, lock |-> None, entered |-> 0, left |-> 0]

intq_empty(q) == q.head = q.tail

intq_full(q) == next(q.head) = q.tail

\* intq_putc () once there is room; the thread in q.not_empty is woken.
Put(q) ==
  [q EXCEPT !.buf[q.head] = q.entered + 1, !.entered = @ + 1,
            !.head = next(@), !.not_empty = None]

\* intq_getc () once there is a byte; the thread in q.not_full is woken.
Get(q) == [q EXCEPT !.left = @ + 1, !.tail = next(@), !.not_full = None]

\* signal (): pc after the waiter, if any, is unblocked.
signal(p, waiter) == IF waiter = None THEN p ELSE [p EXCEPT ![waiter] = "woken"]

-----------------------------------------------------------------------------
(* The serial port.                                                        *)

\* write_ier (), for queues r and x.
write_ier(r, x) ==
  ier' = (IF intq_empty(x) THEN {} ELSE {"xmit"}) \cup (IF intq_full(r) THEN {} ELSE {"recv"})

serial_notify(r, x) == IF mode = "QUEUE" THEN write_ier(r, x) ELSE UNCHANGED ier

\* Bytes written directly: putc_poll () waits until the port takes one.
Polled(x) == [x EXCEPT !.entered = @ + 1, !.left = @ + 1]

\* serial_flush (): every byte in the queue goes out.
serial_flush(x) == [x EXCEPT !.left = x.entered, !.tail = x.head, !.not_full = None]

\* The queue after serial_putc () with interrupts off before the call.
PutcOff(x) ==
  IF mode # "QUEUE" THEN Polled(x)
  ELSE Put(IF intq_full(x) THEN Get(x) ELSE x)

\* serial_init_queue (), in the boot sequence.
serial_init_queue ==
  /\ mode # "QUEUE"
  /\ mode' = "QUEUE"
  /\ write_ier(rx, tx)
  /\ UNCHANGED <<rx, tx, uart, console, pc, halted>>

\* serial_interrupt (): all the bytes there are, as far as the queues allow.  The
\* port holds one byte each way.
serial_interrupt ==
  LET receives == ~intq_full(rx) /\ uart.dr
      sends == ~intq_empty(tx) /\ uart.thre
      r == IF receives THEN Put(rx) ELSE rx
      x == IF sends THEN Get(tx) ELSE tx
      woken == signal(pc, IF receives THEN rx.not_empty ELSE None)
  IN  /\ \/ "recv" \in ier /\ uart.dr
         \/ "xmit" \in ier /\ uart.thre
      /\ rx' = r /\ tx' = x
      /\ pc' = signal(woken, IF sends THEN tx.not_full ELSE None)
      /\ uart' = [dr |-> uart.dr /\ ~receives, thre |-> uart.thre /\ ~sends]
      /\ write_ier(r, x)
      /\ UNCHANGED <<mode, console, halted>>

\* keyboard_interrupt () for a character: dropped when the buffer is full.
keyboard_interrupt ==
  /\ rx.entered + (IF uart.dr THEN 1 ELSE 0) < MaxIn
  /\ ~intq_full(rx)
  /\ rx' = Put(rx)
  /\ pc' = signal(pc, rx.not_empty)
  /\ serial_notify(rx', tx)
  /\ UNCHANGED <<tx, mode, uart, console, halted>>

\* The port: a byte arrives, or the last one has gone out.
Uart ==
  /\ uart' \in {[uart EXCEPT !.dr = TRUE], [uart EXCEPT !.thre = TRUE]}
  /\ uart' # uart
  /\ ~uart.dr /\ uart'.dr => rx.entered < MaxIn
  /\ UNCHANGED <<rx, tx, mode, ier, console, pc, halted>>

-----------------------------------------------------------------------------
(* The end of the kernel.                                                  *)

\* debug_panic () up to its message: interrupts stay off from here on, and the console
\* lock is no longer used.
debug_panic(why) == halted' = why /\ UNCHANGED <<rx, tx, mode, ier, uart, console, pc>>

\* A byte printed with interrupts off before the call.
PrintOff ==
  /\ tx' = PutcOff(tx)
  /\ pc' = signal(pc, IF mode = "QUEUE" /\ intq_full(tx) THEN tx.not_full ELSE None)
  /\ IF mode = "QUEUE" THEN write_ier(rx, tx') ELSE UNCHANGED ier
  /\ UNCHANGED <<rx, mode, uart, console, halted>>

\* Levels 1 and 2 of debug_panic () print, and what they call may panic again; level 3
\* does not print.
Message ==
  /\ halted \in {"panic", "wait", "recursion"}
  /\ \/ tx.entered < MaxOut + 2 /\ PrintOff
     \/ debug_panic(IF halted = "recursion" THEN "silent" ELSE "recursion")

\* The end of debug_panic () at every level: serial_flush () and shutdown ().
Shutdown ==
  /\ halted \in {"panic", "wait", "recursion", "silent"}
  /\ halted' = "off"
  /\ tx' = serial_flush(tx)
  /\ pc' = signal(pc, tx.not_full)
  /\ UNCHANGED <<rx, mode, ier, uart, console>>

\* A panic elsewhere in the kernel.
Panic == debug_panic("panic")

-----------------------------------------------------------------------------
(* Threads.                                                                *)

Goto(t, label) == pc' = [pc EXCEPT ![t] = label]

\* The locks of the queues.  lock_acquire () of a free lock does not block, so the
\* wait () after it follows with interrupts still off.
Released(q, t) == IF q.lock = t THEN [q EXCEPT !.lock = None] ELSE q

\* wait () for a reader and for a writer.
WaitNotEmpty(q, t) == [q EXCEPT !.lock = t, !.not_empty = t]
WaitNotFull(q, t) == [q EXCEPT !.lock = t, !.not_full = t]

\* Changed form, for the mutation runs: readers wait without the lock.
Getc_unlocked(t) ==
  LET q == Released(rx, t)
  IN  /\ t \in Reader /\ pc[t] \in {"idle", "woken", "retry"}
      /\ \/ /\ intq_empty(q)
            /\ IF TRUE
               THEN rx' = WaitNotEmpty(q, t) /\ Goto(t, "wait")
               ELSE rx' = q /\ Goto(t, "lock")
            /\ UNCHANGED ier
         \/ /\ ~intq_empty(q)
            /\ rx' = Get(q)
            /\ pc' = signal([pc EXCEPT ![t] = "idle"], q.not_full)
            /\ serial_notify(rx', tx)
      /\ UNCHANGED <<tx, mode, uart, console, halted>>

\* The loop of input_getc () and intq_getc (), from its test on: takes a byte or goes
\* to sleep.  A woken thread first releases the lock.
Getc(t) ==
  LET q == Released(rx, t)
  IN  /\ t \in Reader /\ pc[t] \in {"idle", "woken", "retry"}
      /\ \/ /\ intq_empty(q)
            /\ IF q.lock = None
               THEN rx' = WaitNotEmpty(q, t) /\ Goto(t, "wait")
               ELSE rx' = q /\ Goto(t, "lock")
            /\ UNCHANGED ier
         \/ /\ ~intq_empty(q)
            /\ rx' = Get(q)
            /\ pc' = signal([pc EXCEPT ![t] = "idle"], q.not_full)
            /\ serial_notify(rx', tx)
      /\ UNCHANGED <<tx, mode, uart, console, halted>>

\* serial_putc () with interrupts on before the call, and the loop of intq_putc ().
Putc(t) ==
  LET q == Released(tx, t)
  IN  /\ t \in Writer /\ pc[t] \in {"print", "woken", "retry"}
      /\ pc[t] = "print" => tx.entered < MaxOut
      /\ \/ /\ mode # "QUEUE"
            /\ tx' = Polled(q)
            /\ UNCHANGED <<pc, ier>>
         \/ /\ mode = "QUEUE" /\ intq_full(q)
            /\ tx' = WaitNotFull(q, t)     \* nobody else prints: the lock is free
            /\ Goto(t, "wait")
            /\ UNCHANGED ier
         \/ /\ mode = "QUEUE" /\ ~intq_full(q)
            /\ tx' = Put(q)
            /\ pc' = signal([pc EXCEPT ![t] = "print"], q.not_empty)
            /\ write_ier(rx, tx')
      /\ UNCHANGED <<rx, mode, uart, console, halted>>

\* A reader that had to wait for the lock has it: wait () with its assertion.
Locked(t) ==
  /\ pc[t] = "lock" /\ t \in Reader /\ rx.lock = None
  /\ IF intq_empty(rx)
     THEN /\ rx' = WaitNotEmpty(rx, t)
          /\ Goto(t, "wait")
          /\ UNCHANGED <<tx, mode, ier, uart, console, halted>>
     ELSE debug_panic("wait")

\* lock_release () of a woken reader yields to a reader that waits for the lock.
Yields(t) ==
  /\ t \in Reader /\ pc[t] = "woken"
  /\ \E u \in Reader : pc[u] = "lock"
  /\ rx' = Released(rx, t)
  /\ Goto(t, "retry")
  /\ UNCHANGED <<tx, mode, ier, uart, console, halted>>

\* acquire_console (), at the start of a print.
acquire_console(t) ==
  /\ t \in Writer
  /\ \/ /\ pc[t] = "idle" /\ console_lock = None
        /\ console_lock' = t
        /\ Goto(t, "print")
        /\ UNCHANGED console_lock_depth
     \/ /\ pc[t] = "print" /\ console_lock = t     \* a print inside the print
        /\ console_lock_depth < MaxDepth
        /\ console_lock_depth' = console_lock_depth + 1
        /\ UNCHANGED <<console_lock, pc>>
  /\ UNCHANGED <<rx, tx, mode, ier, uart, halted>>

release_console(t) ==
  /\ t \in Writer /\ pc[t] = "print"
  /\ \/ /\ console_lock_depth > 0
        /\ console_lock_depth' = console_lock_depth - 1
        /\ UNCHANGED <<console_lock, pc>>
     \/ /\ console_lock_depth = 0
        /\ console_lock' = None
        /\ Goto(t, "idle")
        /\ UNCHANGED console_lock_depth
  /\ UNCHANGED <<rx, tx, mode, ier, uart, halted>>

\* A print in an interrupt handler: no lock, interrupts off.
PrintInHandler == tx.entered < MaxOut /\ PrintOff

-----------------------------------------------------------------------------
Init ==
  /\ rx = intq_init /\ tx = intq_init
  /\ mode = "POLL" /\ ier = {} /\ uart = [dr |-> FALSE, thre |-> TRUE]
  /\ console_lock = None /\ console_lock_depth = 0
  /\ pc = [t \in Thread |-> "idle"]
  /\ halted = "no"

Step(t) ==
  Getc(t) \/ Putc(t) \/ Locked(t) \/ Yields(t) \/ acquire_console(t) \/ release_console(t)

Next ==
  \/ /\ halted = "no"
     /\ \/ serial_init_queue \/ serial_interrupt \/ keyboard_interrupt \/ Uart
        \/ Panic \/ PrintInHandler
        \/ \E t \in Thread : Step(t)
  \/ Message \/ Shutdown
  \/ halted = "off" /\ UNCHANGED vars

Spec == Init /\ [][Next]_vars

-----------------------------------------------------------------------------
(* Properties.                                                             *)

\* Type invariant.
TypeOK ==
  /\ \A q \in {rx, tx} :
       /\ q.buf \in [0 .. INTQ_BUFSIZE - 1 -> Nat]
       /\ q.head \in DOMAIN q.buf /\ q.tail \in DOMAIN q.buf
       /\ {q.not_full, q.not_empty, q.lock} \subseteq Thread \cup {None}
  /\ mode \in {"POLL", "QUEUE"} /\ ier \subseteq {"xmit", "recv"}
  /\ uart \in [dr : BOOLEAN, thre : BOOLEAN]
  /\ console_lock \in Writer \cup {None} /\ console_lock_depth \in 0 .. MaxDepth
  /\ pc \in [Thread -> {"idle", "print", "lock", "wait", "woken", "retry"}]
  /\ halted \in {"no", "panic", "wait", "recursion", "silent", "off"}

\* The bytes of q that have entered and not left are the ones in its buffer, in order.
InOrder(q) ==
  /\ (q.head - q.tail) % INTQ_BUFSIZE = q.entered - q.left
  /\ \A i \in 0 .. q.entered - q.left - 1 :
       q.buf[(q.tail + i) % INTQ_BUFSIZE] = q.left + i + 1

\* No byte is lost, repeated or overtaken on its way through either queue, however
\* threads, handlers, polling and flushing mix (intq_getc () and intq_putc ()).
BytesInOrder == InOrder(rx) /\ InOrder(tx)

\* A thread asleep in wait () is the one its queue will wake, and the condition it
\* waits for is still false: no wakeup is lost, and no waiter is overwritten.
WaitersRemembered ==
  \A t \in Thread : pc[t] = "wait" =>
    \/ t \in Reader /\ rx.not_empty = t /\ intq_empty(rx)
    \/ t \in Writer /\ tx.not_full = t /\ intq_full(tx)

\* While bytes wait to go out the transmit interrupt is enabled, and while there is
\* room the receive interrupt is: write_ier () is called wherever it must be.
InterruptsEnabled ==
  mode = "QUEUE" /\ halted = "no" =>
    /\ ~intq_empty(tx) => "xmit" \in ier
    /\ ~intq_full(rx) => "recv" \in ier

\* One thread at a time prints, and the depth counts only prints inside its print:
\* release_console () may test the depth without looking who holds the lock.
OnePrinter ==
  /\ \A t \in Writer : pc[t] # "idle" => console_lock = t
  /\ console_lock_depth > 0 => console_lock # None

\* When the kernel has panicked, also while it printed the message of a panic, all that
\* was printed has left the machine.
FlushedAtPanic == halted = "off" => tx.left = tx.entered

\* The assertion of wait (): it is entered only while its condition is false.
WaitAsserts == halted # "wait"
=============================================================================

-------------------------------- MODULE Disk --------------------------------
(***************************************************************************)
(* An ATA channel and its driver, devices/ide.c: threads that read and     *)
(* write sectors of the channel's two disks by programmed I/O, the         *)
(* completion interrupt, and the detection of the disks at boot.           *)
(*                                                                         *)
(* The channel is an external device: it executes the command in its       *)
(* registers, one at a time, on the disk selected when it was issued.  The *)
(* channel's lock and semaphore are those of Synch.                        *)
(***************************************************************************)
EXTENDS Integers, FiniteSets

CONSTANTS
  Thread, Sector, Value, NoValue,
  Kind,          \* what the probed disk may be: "none", "ata", "big" or "other"
  Failing,       \* the sectors, of either disk, whose commands may fail or take longer
                 \* than the driver waits; NoValue stands for the identification
  MaxSpurious    \* bound: interrupts the disk did not raise

dev_no == {0, 1}

DiskAssumption ==
  /\ NoValue \notin Value \cup (dev_no \X Sector)
  /\ Failing \subseteq Sector \cup {NoValue} /\ MaxSpurious \in Nat
  /\ Kind \subseteq {"none", "ata", "big", "other"}

VARIABLES
  kind,                  \* the disks that are there
  is_ata,                \* d->is_ata
  lock,                  \* the holder of the channel's lock, or NoValue
  expecting_interrupt,
  completion_wait,       \* the value of the semaphore
  chan,                  \* the channel: registers, status, data and intrq
  media,                 \* what the sectors hold
  pc,
  call,                  \* the arguments and result of a thread's call
  spurious               \* number of interrupts the disk did not raise

driver == <<is_ata, lock, expecting_interrupt, completion_wait>>
vars == <<kind, driver, chan, media, pc, call, spurious>>

Block == dev_no \X Sector
NoCall == [op |-> "none", block |-> NoValue, val |-> NoValue]
NoChannel == [dev |-> 0, sec |-> NoValue, cmd |-> "none", status |-> "idle",
              data |-> NoValue, intrq |-> FALSE]

Goto(t, label) == pc' = [pc EXCEPT ![t] = label]

-----------------------------------------------------------------------------
(* The channel.                                                            *)

\* It finishes what it is doing: a read has its data ready, a write asks for its data,
\* or the data it was given is on the medium.  On a failing sector it may end with an
\* error instead, before the data has moved or, for a write, after.
Channel ==
  /\ chan.status = "busy"
  /\ \/ /\ chan.cmd \in {"read", "identify"}
        /\ chan' = [chan EXCEPT !.status = "drq", !.intrq = TRUE,
                      !.data = IF chan.cmd = "read" THEN media[<<chan.dev, chan.sec>>] ELSE NoValue]
        /\ UNCHANGED media
     \/ /\ chan.cmd = "write" /\ chan.data = NoValue
        /\ chan' = [chan EXCEPT !.status = "drq"]
        /\ UNCHANGED media
     \/ /\ chan.cmd = "write" /\ chan.data # NoValue
        /\ media' = [media EXCEPT ![<<chan.dev, chan.sec>>] = chan.data]
        /\ chan' = [chan EXCEPT !.status = "idle", !.intrq = TRUE]
     \/ /\ chan.sec \in Failing
        /\ chan' = [chan EXCEPT !.status = "idle", !.intrq = TRUE]
        /\ UNCHANGED media
  /\ UNCHANGED <<kind, driver, pc, call, spurious>>

\* interrupt_handler (): acknowledges the interrupt and ups the semaphore.
Handle ==
  IF expecting_interrupt
  THEN /\ chan' = [chan EXCEPT !.intrq = FALSE]
       /\ completion_wait' = completion_wait + 1
       /\ UNCHANGED <<is_ata, lock, expecting_interrupt>>
  ELSE UNCHANGED <<driver, chan>>

interrupt_handler == chan.intrq /\ Handle /\ UNCHANGED <<kind, media, pc, call, spurious>>

\* An interrupt of the channel's line that the disk did not raise.
Spurious ==
  /\ ~chan.intrq /\ spurious < MaxSpurious
  /\ spurious' = spurious + 1
  /\ Handle
  /\ UNCHANGED <<kind, media, pc, call>>

-----------------------------------------------------------------------------
(* Steps of the driver.                                                    *)

\* A command that takes longer than the driver waits.
Overdue == chan.status = "busy" /\ chan.sec \in Failing

\* wait_until_idle () has returned: the status was read, which clears the interrupt.
\* After a timeout (data that nobody will take keeps DRQ set) the driver goes on as if
\* the channel were idle.
Idle == chan.status \in {"idle", "drq"} \/ Overdue

\* wait_while_busy () has returned; its result is whether the status is "drq".
Answered == chan.status # "busy" \/ Overdue

\* issue_pio_command ().
issue_pio_command(dev, sec, cmd) ==
  /\ expecting_interrupt' = TRUE
  /\ chan' = [dev |-> dev, sec |-> sec, cmd |-> cmd, status |-> "busy",
              data |-> NoValue, intrq |-> FALSE]

\* sema_down (&c->completion_wait).
CompletionDown ==
  /\ completion_wait > 0
  /\ completion_wait' = completion_wait - 1

\* ide_read () and ide_write () up to the first wait.  The channel is probed by then.
Start(t) ==
  /\ pc["boot"] = "done" /\ pc[t] = "idle"
  /\ \E b \in {x \in Block : is_ata[x[1]]} :
       call' \in {[call EXCEPT ![t] = c] :
                    c \in {[op |-> "read", block |-> b, val |-> NoValue]}
                            \cup [op : {"write"}, block : {b}, val : Value]}
  /\ Goto(t, "lock")
  /\ UNCHANGED <<kind, driver, chan, media, spurious>>

lock_acquire(t) ==
  /\ pc[t] = "lock" /\ lock = NoValue
  /\ lock' = t
  /\ Goto(t, "select")
  /\ UNCHANGED <<kind, is_ata, expecting_interrupt, completion_wait, chan, media, call, spurious>>

\* select_sector () and issue_pio_command ().
Command(t) ==
  /\ pc[t] = "select" /\ Idle
  /\ issue_pio_command(call[t].block[1], call[t].block[2], call[t].op)
  /\ Goto(t, IF call[t].op = "read" THEN "read" ELSE "write")
  /\ UNCHANGED <<kind, is_ata, lock, completion_wait, media, call, spurious>>

\* ide_read (): the interrupt has come; wait_while_busy () and input_sector ().
ReadDown(t) ==
  /\ pc[t] = "read"
  /\ CompletionDown
  /\ Goto(t, "input")
  /\ UNCHANGED <<kind, is_ata, lock, expecting_interrupt, chan, media, call, spurious>>

input_sector(t) ==
  /\ pc[t] = "input" /\ Answered
  /\ IF chan.status = "drq"
     THEN /\ call' = [call EXCEPT ![t].val = chan.data]
          /\ chan' = [chan EXCEPT !.status = "idle"]
          /\ Goto(t, "release")
     ELSE Goto(t, "panic") /\ UNCHANGED <<call, chan>>
  /\ UNCHANGED <<kind, driver, media, spurious>>

\* ide_write (): wait_while_busy () and output_sector (), then the interrupt.
output_sector(t) ==
  /\ pc[t] = "write" /\ Answered
  /\ IF chan.status = "drq"
     THEN /\ chan' = [chan EXCEPT !.status = "busy", !.data = call[t].val]
          /\ Goto(t, "written")
     ELSE Goto(t, "panic") /\ UNCHANGED chan
  /\ UNCHANGED <<kind, driver, media, call, spurious>>

\* Changed form, for the mutation runs: a write returns without waiting for its completion.
WriteDown_not(t) ==
  /\ pc[t] = "written"
  /\ UNCHANGED completion_wait
  /\ Goto(t, "release")
  /\ UNCHANGED <<kind, is_ata, lock, expecting_interrupt, chan, media, call, spurious>>

WriteDown(t) ==
  /\ pc[t] = "written"
  /\ CompletionDown
  /\ Goto(t, "release")
  /\ UNCHANGED <<kind, is_ata, lock, expecting_interrupt, chan, media, call, spurious>>

lock_release(t) ==
  /\ pc[t] = "release"
  /\ lock' = NoValue
  /\ call' = [call EXCEPT ![t] = NoCall]
  /\ Goto(t, "idle")
  /\ UNCHANGED <<kind, is_ata, expecting_interrupt, completion_wait, chan, media, spurious>>

-----------------------------------------------------------------------------
(* ide_init (), in the boot thread before any call.                        *)

\* reset_channel () and check_device_type () for both disks: an absent master may
\* still have a slave, a disk that does not answer as ATA is left alone.
check_device_type ==
  /\ pc["boot"] = "reset"
  /\ is_ata' = [d \in dev_no |-> kind[d] \in {"ata", "big"}]
  /\ Goto("boot", "identify0")
  /\ UNCHANGED <<kind, lock, expecting_interrupt, completion_wait, chan, media, call, spurious>>

Label(d) == IF d = 0 THEN "identify0" ELSE "identify1"
AfterIdentify(d) == IF d = 0 THEN "identify1" ELSE "done"

\* identify_ata_device (): the command, without the lock.
identify_ata_device(d) ==
  /\ pc["boot"] = Label(d)
  /\ IF is_ata[d]
     THEN /\ Idle /\ issue_pio_command(d, NoValue, "identify")
          /\ Goto("boot", "wait")
     ELSE Goto("boot", AfterIdentify(d)) /\ UNCHANGED <<expecting_interrupt, chan>>
  /\ UNCHANGED <<kind, is_ata, lock, completion_wait, media, call, spurious>>

\* Its response: a disk that fails, or is of 1 GB or more, is not registered.
Identified ==
  /\ pc["boot"] = "wait"
  /\ CompletionDown
  /\ Goto("boot", "identified")
  /\ UNCHANGED <<kind, is_ata, lock, expecting_interrupt, chan, media, call, spurious>>

block_register ==
  /\ pc["boot"] = "identified" /\ Answered
  /\ is_ata' = [is_ata EXCEPT ![chan.dev] = chan.status = "drq" /\ kind[chan.dev] # "big"]
  /\ chan' = [chan EXCEPT !.status = IF @ = "drq" THEN "idle" ELSE @]
  /\ Goto("boot", AfterIdentify(chan.dev))
  /\ UNCHANGED <<kind, lock, expecting_interrupt, completion_wait, media, call, spurious>>

-----------------------------------------------------------------------------
Init ==
  /\ kind \in [dev_no -> Kind]
  /\ is_ata = [d \in dev_no |-> FALSE]
  /\ lock = NoValue /\ expecting_interrupt = FALSE /\ completion_wait = 0
  /\ chan = NoChannel
  /\ media \in [Block -> Value]
  /\ pc = [t \in Thread \cup {"boot"} |-> IF t = "boot" THEN "reset" ELSE "idle"]
  /\ call = [t \in Thread |-> NoCall]
  /\ spurious = 0

Step(t) ==
  \/ Start(t) \/ lock_acquire(t) \/ Command(t) \/ ReadDown(t) \/ input_sector(t)
  \/ output_sector(t) \/ WriteDown(t) \/ lock_release(t)

Boot ==
  check_device_type \/ (\E d \in dev_no : identify_ata_device(d)) \/ Identified \/ block_register

Panicked == \E t \in Thread : pc[t] = "panic"
NoDisk == pc["boot"] = "done" /\ \A d \in dev_no : ~is_ata[d]

Next ==
  \/ ~Panicked /\ (Channel \/ interrupt_handler \/ Spurious \/ Boot \/ \E t \in Thread : Step(t))
  \/ (Panicked \/ NoDisk) /\ UNCHANGED vars

Spec == Init /\ [][Next]_vars

-----------------------------------------------------------------------------
(* Properties.                                                             *)

\* Type invariant.
TypeOK ==
  /\ is_ata \in [dev_no -> BOOLEAN]
  /\ lock \in Thread \cup {NoValue}
  /\ completion_wait \in 0 .. 1 + MaxSpurious
  /\ chan.status \in {"idle", "busy", "drq"} /\ chan.data \in Value \cup {NoValue}
  /\ media \in [Block -> Value]
  /\ \A t \in Thread : call[t].val \in Value \cup {NoValue}

\* Whether the call of t has taken effect: a write does when the disk has stored the
\* data, a read when it takes the data over.
Done(t) ==
  \/ pc[t] = "release"
  \/ pc[t] = "written" /\ chan.status # "busy"

Abstract == INSTANCE BlockStore WITH
  Failing <- dev_no \X (Failing \cap Sector),
  store <- media,
  call <- [t \in Thread |-> [op |-> call[t].op, block |-> call[t].block,
                             val |-> call[t].val, done |-> Done(t)]]

\* The driver implements the promise of block.c: reads and writes of two threads on
\* the two disks of a channel take effect one at a time, and a write returns after
\* the disk has the data, or has failed to store it on a sector that may fail.
ImplementsBlockStore == Abstract!Spec

\* Between two calls nothing is left over: no completion that the next call would
\* take for its own, no command under way, no interrupt to come.
QuietBetweenCalls ==
  lock = NoValue /\ pc["boot"] \in {"identify1", "done"} =>
    completion_wait = 0 /\ chan.status = "idle" /\ ~chan.intrq

\* A call returns only after the disk has done what it asked, and what a write gave
\* is on the medium (the comment of ide_write ()).  An interrupt that the disk did not
\* raise and an error after the data has moved, which ide_write () does not look for,
\* break it.
WriteAcknowledged ==
  \A t \in Thread : pc[t] = "release" /\ call[t].op = "write" => media[call[t].block] = call[t].val
=============================================================================

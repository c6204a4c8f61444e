----------------------------- MODULE MCDevices -----------------------------
(*****************************************************************************)
(* The drivers and the interrupt dispatch, checked in one run: a behaviour   *)
(* is one of the component it has chosen at the start. The components do     *)
(* not share state; variables of the same name are one variable here, and    *)
(* those a component does not have hold Unused.                              *)
(*****************************************************************************)
EXTENDS Integers, Sequences, FiniteSets, TLC

CONSTANTS Reader, Writer, None, INTQ_BUFSIZE, MaxIn, MaxOut, Caller, Sector,
          Value, NoValue, Kind, Failing, MaxSpurious, Width, DiskSize, Entry,
          EntryCount, Elsewhere, NoTable, Role, Plain, BufSize, Devices,
          Handled, Internal, Traps, MaxRaise, OFF, ON, Unused

VARIABLES part,     \* the component of this behaviour
          rx, tx, mode, ier, uart, console_lock, console_lock_depth, pc,
          halted, kind, is_ata, lock, expecting_interrupt, completion_wait,
          chan, media, call, spurious, disk, stack, part_nr, all_blocks,
          block_by_role, access, down, state_var, caps_lock, buffer, typed,
          rebooted, idt, intr_handlers, unexpected_cnt, in_external_intr,
          yield_on_return, frames, cur, level, saved, irr, isr, raised, booted,
          panicked

E(t, o, s) == [type |-> t, offset |-> o, size |-> s]

\* Entries at the boundaries of a disk of 6 sectors, with 4-bit sector numbers.
Entries ==
  {E("empty", 0, 0)} \cup
  {E("filesys", o, s) : o \in {0, 5, 6, 14}, s \in {0, 1, 2, 13}} \cup
  {E("filesys", 1, 1), E("swap", 1, 2), E("swap", 4, 2), E("foreign", 3, 1),
   E("extended", 2, 3), E("extended", 8, 2)}

OtherTables == {NoTable, <<E("filesys", 1, 1), E("empty", 0, 0)>>}

\* Keys of every keymap and of every treatment: a letter, signs that Ctrl turns into
\* control characters only shifted (2) and only unshifted ([), Delete; and keys of none, behind the prefix 0xe0 (grey Delete and the shift
\* the keyboard itself sends before it).
Keys == {3, 16, 26, 83, 57344 + 42, 57344 + 83}

\* The serial port (without a handler) and an IDE channel behind the slave; page
\* faults and system calls.
Irqs == {4, 14}
HandledIrqs == {14}
InternalVectors == {14, 48}
TrapVectors == {48}

Symmetry == Permutations(Caller) \cup Permutations(Reader) \cup Permutations(Writer)

C == INSTANCE Console WITH MaxDepth <- 1
D == INSTANCE Disk WITH Thread <- Caller
P == INSTANCE Partition WITH MaxDepth <- 4
K == INSTANCE Keyboard
I == INSTANCE Interrupts WITH MaxDepth <- 2, Thread <- Caller

ASSUME C!ConsoleAssumption /\ D!DiskAssumption /\ P!PartitionAssumption /\ I!VectorsAssumption

vars == <<part, rx, tx, mode, ier, uart, console_lock, console_lock_depth, pc,
          halted, kind, is_ata, lock, expecting_interrupt, completion_wait,
          chan, media, call, spurious, disk, stack, part_nr, all_blocks,
          block_by_role, access, down, state_var, caps_lock, buffer, typed,
          rebooted, idt, intr_handlers, unexpected_cnt, in_external_intr,
          yield_on_return, frames, cur, level, saved, irr, isr, raised, booted,
          panicked>>

Init ==
  \/ /\ part = "console" /\ C!Init
     /\ kind = Unused /\ is_ata = Unused /\ lock = Unused
     /\ expecting_interrupt = Unused /\ completion_wait = Unused
     /\ chan = Unused /\ media = Unused /\ call = Unused /\ spurious = Unused
     /\ disk = Unused /\ stack = Unused /\ part_nr = Unused
     /\ all_blocks = Unused /\ block_by_role = Unused /\ access = Unused
     /\ down = Unused /\ state_var = Unused /\ caps_lock = Unused
     /\ buffer = Unused /\ typed = Unused /\ rebooted = Unused /\ idt = Unused
     /\ intr_handlers = Unused /\ unexpected_cnt = Unused
     /\ in_external_intr = Unused /\ yield_on_return = Unused
     /\ frames = Unused /\ cur = Unused /\ level = Unused /\ saved = Unused
     /\ irr = Unused /\ isr = Unused /\ raised = Unused /\ booted = Unused
     /\ panicked = Unused
  \/ /\ part = "disk" /\ D!Init
     /\ rx = Unused /\ tx = Unused /\ mode = Unused /\ ier = Unused
     /\ uart = Unused /\ console_lock = Unused /\ console_lock_depth = Unused
     /\ halted = Unused /\ disk = Unused /\ stack = Unused /\ part_nr = Unused
     /\ all_blocks = Unused /\ block_by_role = Unused /\ access = Unused
     /\ down = Unused /\ state_var = Unused /\ caps_lock = Unused
     /\ buffer = Unused /\ typed = Unused /\ rebooted = Unused /\ idt = Unused
     /\ intr_handlers = Unused /\ unexpected_cnt = Unused
     /\ in_external_intr = Unused /\ yield_on_return = Unused
     /\ frames = Unused /\ cur = Unused /\ level = Unused /\ saved = Unused
     /\ irr = Unused /\ isr = Unused /\ raised = Unused /\ booted = Unused
     /\ panicked = Unused
  \/ /\ part = "partition" /\ P!Init
     /\ rx = Unused /\ tx = Unused /\ mode = Unused /\ ier = Unused
     /\ uart = Unused /\ console_lock = Unused /\ console_lock_depth = Unused
     /\ halted = Unused /\ kind = Unused /\ is_ata = Unused /\ lock = Unused
     /\ expecting_interrupt = Unused /\ completion_wait = Unused
     /\ chan = Unused /\ media = Unused /\ call = Unused /\ spurious = Unused
     /\ down = Unused /\ state_var = Unused /\ caps_lock = Unused
     /\ buffer = Unused /\ typed = Unused /\ rebooted = Unused /\ idt = Unused
     /\ intr_handlers = Unused /\ unexpected_cnt = Unused
     /\ in_external_intr = Unused /\ yield_on_return = Unused
     /\ frames = Unused /\ cur = Unused /\ level = Unused /\ saved = Unused
     /\ irr = Unused /\ isr = Unused /\ raised = Unused /\ booted = Unused
     /\ panicked = Unused
  \/ /\ part = "keyboard" /\ K!Init
     /\ rx = Unused /\ tx = Unused /\ mode = Unused /\ ier = Unused
     /\ uart = Unused /\ console_lock = Unused /\ console_lock_depth = Unused
     /\ pc = Unused /\ halted = Unused /\ kind = Unused /\ is_ata = Unused
     /\ lock = Unused /\ expecting_interrupt = Unused
     /\ completion_wait = Unused /\ chan = Unused /\ media = Unused
     /\ call = Unused /\ spurious = Unused /\ disk = Unused /\ stack = Unused
     /\ part_nr = Unused /\ all_blocks = Unused /\ block_by_role = Unused
     /\ access = Unused /\ idt = Unused /\ intr_handlers = Unused
     /\ unexpected_cnt = Unused /\ in_external_intr = Unused
     /\ yield_on_return = Unused /\ frames = Unused /\ cur = Unused
     /\ level = Unused /\ saved = Unused /\ irr = Unused /\ isr = Unused
     /\ raised = Unused /\ booted = Unused /\ panicked = Unused
  \/ /\ part = "interrupts" /\ I!Init
     /\ rx = Unused /\ tx = Unused /\ mode = Unused /\ ier = Unused
     /\ uart = Unused /\ console_lock = Unused /\ console_lock_depth = Unused
     /\ pc = Unused /\ halted = Unused /\ kind = Unused /\ is_ata = Unused
     /\ lock = Unused /\ expecting_interrupt = Unused
     /\ completion_wait = Unused /\ chan = Unused /\ media = Unused
     /\ call = Unused /\ spurious = Unused /\ disk = Unused /\ stack = Unused
     /\ part_nr = Unused /\ all_blocks = Unused /\ block_by_role = Unused
     /\ access = Unused /\ down = Unused /\ state_var = Unused
     /\ caps_lock = Unused /\ buffer = Unused /\ typed = Unused
     /\ rebooted = Unused

Next ==
  \/ /\ part = "console" /\ C!Next
     /\ UNCHANGED <<part, kind, is_ata, lock, expecting_interrupt,
                   completion_wait, chan, media, call, spurious, disk, stack,
                   part_nr, all_blocks, block_by_role, access, down, state_var,
                   caps_lock, buffer, typed, rebooted, idt, intr_handlers,
                   unexpected_cnt, in_external_intr, yield_on_return, frames,
                   cur, level, saved, irr, isr, raised, booted, panicked>>
  \/ /\ part = "disk" /\ D!Next
     /\ UNCHANGED <<part, rx, tx, mode, ier, uart, console_lock,
                   console_lock_depth, halted, disk, stack, part_nr,
                   all_blocks, block_by_role, access, down, state_var,
                   caps_lock, buffer, typed, rebooted, idt, intr_handlers,
                   unexpected_cnt, in_external_intr, yield_on_return, frames,
                   cur, level, saved, irr, isr, raised, booted, panicked>>
  \/ /\ part = "partition" /\ P!Next
     /\ UNCHANGED <<part, rx, tx, mode, ier, uart, console_lock,
                   console_lock_depth, halted, kind, is_ata, lock,
                   expecting_interrupt, completion_wait, chan, media, call,
                   spurious, down, state_var, caps_lock, buffer, typed,
                   rebooted, idt, intr_handlers, unexpected_cnt,
                   in_external_intr, yield_on_return, frames, cur, level,
                   saved, irr, isr, raised, booted, panicked>>
  \/ /\ part = "keyboard" /\ K!Next
     /\ UNCHANGED <<part, rx, tx, mode, ier, uart, console_lock,
                   console_lock_depth, pc, halted, kind, is_ata, lock,
                   expecting_interrupt, completion_wait, chan, media, call,
                   spurious, disk, stack, part_nr, all_blocks, block_by_role,
                   access, idt, intr_handlers, unexpected_cnt,
                   in_external_intr, yield_on_return, frames, cur, level,
                   saved, irr, isr, raised, booted, panicked>>
  \/ /\ part = "interrupts" /\ I!Next
     /\ UNCHANGED <<part, rx, tx, mode, ier, uart, console_lock,
                   console_lock_depth, pc, halted, kind, is_ata, lock,
                   expecting_interrupt, completion_wait, chan, media, call,
                   spurious, disk, stack, part_nr, all_blocks, block_by_role,
                   access, down, state_var, caps_lock, buffer, typed, rebooted>>

Spec == Init /\ [][Next]_vars

-----------------------------------------------------------------------------
(* Properties: those of the components, each in the behaviours of its own. *)

\* The console: no byte is lost, repeated or overtaken in the serial port's queues,
\* the one waiter a queue has room for is remembered until it is woken, the interrupt
\* that moves a queue is enabled while it can move, one thread prints at a time, and
\* what was printed before a panic has left the machine (serial.c, intq.c, console.c).
ConsoleCorrect ==
  part = "console" => /\ C!TypeOK
                      /\ C!BytesInOrder
                      /\ C!WaitersRemembered
                      /\ C!InterruptsEnabled
                      /\ C!OnePrinter
                      /\ C!FlushedAtPanic

\* The IDE driver implements block_read () and block_write () as atomic calls, although
\* its interrupts, the callers of the channel and errors, timeouts and lost writes of
\* failing sectors interleave: those harm no other sector (ide.c).
ImplementsBlockStore ==
  /\ part = "disk" => D!Abstract!Init
  /\ [][part = "disk" => D!Abstract!Next]_(D!Abstract!vars)

\* Between two calls of the IDE driver nothing is left over on the channel; a sector of
\* a partition is the one at its distance from the partition's start, and partitions
\* whose entries do not overlap share none (ide.c, partition.c).
SectorsInPlace ==
  /\ part = "disk" => D!TypeOK /\ D!QuietBetweenCalls
  /\ part = "partition" => P!TypeOK /\ P!AccessInPartition /\ P!RolesApart

\* The modifiers are set exactly while their keys are down, the input buffer holds the
\* characters the keys that were down stand for, and only Ctrl, Alt and Delete together
\* restart the machine (keyboard_interrupt ()).
KeyboardCorrect ==
  part = "keyboard" => /\ K!TypeOK
                       /\ K!ModifiersFollowKeys
                       /\ K!CharactersMatchKeys
                       /\ K!RebootsOnlyOnKeys

\* External interrupts do not nest, intr_context () tells when one is handled, every
\* interrupt in service is acknowledged where it came through and no other, and the
\* assertions of intr_handler () hold, although a handler's thread may be switched out.
InterruptsCorrect ==
  part = "interrupts" => /\ I!TypeOK
                         /\ I!AssertsHold
                         /\ I!ContextExact
                         /\ I!ServiceExact
=============================================================================

# A TLA+ model of the kernel

The repository is Pintos, a small teaching kernel for one 80x86 CPU, with the
projects on threads (alarm clock, priority scheduling, aging, the 4.4BSD
scheduler), user programs and virtual memory. This directory models the kernel
from the scheduler to the file system and the drivers. TLC checks the modules on
small instances; TLAPS proves the invariants of the scheduler, of synchronization,
of the life of processes, of the system calls on files, of the file system and of
the page allocator for every instance.
Paths below are relative to `src/src/` of the repository.

## The system and its modules

| part | code | module | promises (refinement) |
|---|---|---|---|
| scheduler, alarm clock, aging | `threads/thread.c`, `devices/timer.c` | `Thread` | |
| 4.4BSD scheduler | `threads/thread.c`, `fixed-point.h` | `Mlfqs` | |
| semaphores, locks, conditions | `threads/synch.c` | `Synch` (extends `Thread`) | `Thread` |
| interrupt dispatch | `threads/interrupt.c`, `intr-stubs.S` | `Interrupts` | |
| exec, wait, exit | `userprog/process.c`, `threads/init.c` | `Process` | |
| command line and initial stack | `userprog/process.c`, `lib/string.c` | `Arguments` | |
| segments and mappings | `userprog/process.c`, `syscall.c`, `vm/page.c` | `Segment` | |
| checks of user pointers | `userprog/syscall.c`, `vm/page.c` | `UserMemory` | |
| file system calls, `Fd_table` | `userprog/syscall.c`, `filesys/file.c` | `Syscall` | `Descriptors` |
| frames, page faults, swap | `vm/`, `userprog/exception.c`, `pagedir.c` | `VM` | `AddressSpace` |
| file system | `filesys/` | `FileSys` | `FileStore` |
| page and block allocators | `threads/palloc.c`, `malloc.c`, `lib/kernel/bitmap.c` | `Palloc`, `Malloc` | |
| hash tables | `lib/kernel/hash.c` | `Hash` | `ElemSet` |
| lists | `lib/kernel/list.c` | `List`; `KernelList` (ordered insertion) | `SeqLists` |
| console, serial port, input | `devices/intq.c`, `serial.c`, `input.c`, `lib/kernel/console.c`, `debug.c` | `Console` | |
| disks | `devices/ide.c`, `block.c` | `Disk` | `BlockStore` |
| partitions | `devices/partition.c`, `block.c` | `Partition` | |
| keyboard | `devices/kbd.c` | `Keyboard` | |
| 64-bit division, sort, search | `lib/arithmetic.c`, `lib/stdlib.c` | `Arithmetic`, `Sort` | |

`MC...` modules are the instances TLC checks; the `...Proofs` modules and
`SynchInvariant` hold the theorems. `PROJECT.json` maps every definition to the
lines it models and lists the hazards of the code with the properties about them.

The parts interact as follows. `Synch` is built on the actions of `Thread`, and
every step of it is a step of `Thread`. `Process`, `Console` and `Disk` take
semaphores and locks as `Synch` establishes them: a counter, and a lock taken in
an action of its own some time after it is free. `VM` uses pages as `Palloc`
gives them and keeps the supplemental page table, a `Hash`, as a function.
`Syscall` sees files as `FileSys` keeps them; `FileSys` sees sectors as `Disk`
reads and writes them, through `BlockStore`'s promise. `Thread`, `Synch` and
`Mlfqs` use `KernelList`'s sequences for the lists that `List` shows to be
sequences.

Operators marked "Changed form, for the mutation runs" are wrong variants of the
definition that follows them, each with a bug the code could have. No
specification uses them; each shows that some property fails when it takes that
definition's place.

## How state and actions correspond to the code

**Threads and interrupts.** There is one CPU, so a stretch with interrupts off is
one action, and an interrupt may come between any two. In `Thread`, `pc[t]` says
where a thread is between two stretches: `"check"` and `"yield"` in
`thread_check_preempt`, before its test and between the test and `thread_yield`;
`"elapsed"` and `"sleep"` in `timer_sleep`; `"run"` anywhere else. `handler` is
what an external interrupt does next; threads stand still while it is not
`"none"`. The wake-up loop of `thread_tick` takes one action per pass. `Schedule`
is `schedule`, `next_thread_to_run` and `thread_schedule_tail` together.
`Interrupts` opens the handler itself: frames on the stacks of switched-out
threads, both controllers with their requests and what is in service, and the two
global flags. In `Synch`, `op[t]` lists the stretches a call still has to do; the
guards of the calls are the conditions the code asserts.

**Mlfqs.** A whole handler is one action, its yield included. Fixed-point numbers
keep the code's roundings with fewer fraction bits (`FP_F`), priorities are 0 to 7.

**Processes.** The three semaphores, the child list and the fields live in the
child's `struct thread`, a page that is freed when the thread is gone. A read of a
freed field gives any value of its type; a walk through a freed list element leads
to the label `"halt"`, where the model stops. `load` has one of three outcomes:
success, failure after the page directory was made, failure before it.

**User programs.** `Arguments` works on bytes: `strtok_r` writes into the buffer
it splits, the buffer keeps what was behind its terminator, and the stack is built
word by word. `UserMemory` and `Segment` use addresses of five bits and pages of
four bytes, so that sums wrap where 32-bit ones do.

**Virtual memory.** A section under `Frame_lock` or `Filesys_lock` that nobody can
see half done is one step that waits for the lock; `frame_evict` holds
`Frame_lock` over many steps, and the owner of the page may touch it or fault on it
at each. `ev` is the eviction in progress, `call[p]` the locals of the kernel code
process `p` is in, `store` the last store, for the refinement. The contents of a
page are one value. `Failure` says which allocations may fail. `frame_free` gives its
page back in a step after the one under `Frame_lock`, and the fault handler forgets a
slot in a step after the one in which `swap_in` freed it, so that another process may
have the slot already.

**System calls and files.** What a call does under `Filesys_lock` is one step in
`Syscall`, the whole of `load` included; `read` and `write` may transfer fewer bytes
than there are, down to none, as `inode_read_at` and `inode_write_at` do when memory
runs out. `FileSys` cuts a call at its disk writes, because the machine may stop
between any two; the loop that zeroes a new file may have written any number of its
sectors. `Crash` keeps the disk and loses the rest. `unsigned` and `off_t` have
`Width` bits in `Syscall`.

**Allocators and library.** `Palloc` tests and changes single bits, since
`palloc_free_multiple` tests and clears them without the pool's lock; a failed
assertion and the panic of `PAL_ASSERT` stop the model. In `Malloc` the calls of
several threads interleave: a descriptor's lock is taken and released in actions of
its own, and what happens between, on the list, in the arena and in the page
allocator, is a step each. `Hash` and `List` take one action per call, which the
callers' locks make atomic. `List` works on `prev` and `next` pointers. `Sort` takes one
step per pass of a loop, `Arithmetic` divides 8-bit numbers with a 4-bit machine
division, which traps as `divl` does.

**Devices.** In `Console` bytes are numbered in the order they enter a queue. The
UART, the ATA channel, the interrupt controllers and the keyboard's keys are
external: what they may do is taken from how the drivers use them. A disk of `Disk`
may not be there, and commands on the sectors `Failing` may end with an error or
take longer than the driver waits, after which it goes on or panics; `Partition`
lets a table hold entries at and past the boundaries of the disk, and the command line
name the device of a role, which otherwise is the first of its type.
In `Console` a panic prints, which may panic again: the second level prints less, the
third nothing, and each flushes the queue.

## Runs

A module is explored in full on a small instance; several components share a run.
In such a run the variable `part` (`kit` in `MCSynch`) is chosen at the start and
never changes: a behaviour is one of that component, and the variables the
component does not have hold `Unused`. The components of one run do not interact
through `part`; the run is the union of theirs. The component a theorem is about is
the one the `MC` module extends, so that run and theorem are about the same
definition; the behaviours of the others leave it in its initial state.

| run | instance | distinct states |
|---|---|---|
| `schedulers` | `Thread`: 3 threads, 2 priorities, aging, sleeps of 1 and 2 ticks, clock up to 3; `Mlfqs`: 3 threads that change nice, 2 that also call `thread_set_priority` | 3.5 million |
| `synch` | 3 threads; semaphore and lock with 3 priorities; semaphore and sleeps; condition and lock | 1.4 million |
| `process` | `main` and 3 programs; all command lines of up to 9 characters; 32-byte address spaces | 1.1 million |
| `virtual_memory` | 2 processes, 2 frames, 1 slot; 1 process, all kinds of pages, failures; with 2 values 1 with a mapped file, 1 that writes its data, 2 sharing a frame | 989,000 |
| `system_calls` | 2 processes, 2 inodes, 4 structs file, 2 descriptors per process | 284,000 |
| `file_system` | 3 names (one too long), 2 directory slots, 3 data sectors, 2 open files | 72,000 |
| `devices` | queues of 2 bytes, 2 threads, 2 disks, a disk of 6 sectors, 6 keys and the modifiers, 2 IRQs | 942,000 |
| `library` | 2 threads; 2 pools of pages; 3 pages for blocks; 6 hash elements; 4 list elements; all 8-bit operands; arrays of 4 values | 868,000 |
| `liveness` | the smallest instances of five components in which the wait happens | 65,000 |
| `cond_priority` | as `synch` | violated |
| `process_walk` | `main` and 2 programs | violated |
| `process_memory` | `main` and 1 program without memory | violated |

What they check. A property of a run often collects several definitions of a
component's module; the definitions are named first, the run's property after
"all in" or where it has a name of its own.

- `schedulers`. Status, current thread and the two lists agree
  (`ListsMatchStatus`); the running thread is of highest
  priority except on its way through the preemption check
  (`HighestPriorityRuns`); nobody sleeps too short (`SleepsLongEnough`) or past the
  tick it is due (`NobodyOversleeps`). Under the 4.4BSD scheduler the list is in
  the order of the priorities of now (`ReadyInOrder`), the highest runs
  (`HighestRuns`) and each recalculation gives the formula's value
  (`PriorityFresh`), all in `MlfqsOrder`. That the types are right and that
  `ready_list` and `Sleep_list`, sorted only by insertion, stay sorted under aging
  and priority changes is proved and needs no run.
- `synch`. A thread's single `elem` is on one list at a time (`ElemExclusive`); no
  wakeup is lost although a woken thread may find the value taken
  (`NoLostWakeup`); at most one thread owns a lock, also while `holder` is not set
  (`LockExclusion`); waiters stay sorted (`WaitersSorted`, with `ElemExclusive` and
  the types in `WaiterLists`); a signal between `lock_release` and
  `sema_down` of `cond_wait` is kept (`SignalNotLost`); every step is one `Thread`
  allows (`ImplementsThread`).
- `process`. exec tells whether the program was loaded, wait returns the status of
  an ended child once, no child a parent may still ask for is freed, and what is
  waited for has released its files and memory (`ExecReportsLoad`,
  `ChildrenReaped`). The program finds its words
  through the stack pointer (`ArgumentsArrive`, with `WordsAligned` and `NamesAgree`).
  Memory that passes the checks is accessible to its last byte, and nobody is
  killed over memory it could use itself (`PointersChecked`). A segment is in memory byte for byte for
  every header `load` accepts, in pages that a fault can fill if the file is as long
  as the header says; a mapping shows every byte of the file once, and one
  that fails half way leaves nothing behind and nothing changed (`PagesExact`).
- `virtual_memory`. Every frame and every slot is in exactly one place
  (`FramesAccounted`, `SlotsAccounted`), no two pages share one
  (`MappingsExclusive`, all in `MemoryAccounted`), nobody is killed for a page the kernel took
  (`KilledForCause`), a buffer stays pinned while it is copied
  (`PinnedWhileCopying`), the kernel panics only inside eviction, for want of a frame
  or a slot, or when `construct_stack` finds its page evicted and no memory to get it
  back (`PanicsForWant`, with `KilledForCause` in `FailsForCause`), and the whole implements `AddressSpace`: every read sees
  the last write whatever was evicted, and a mapped page is in its file before it
  goes.
- `system_calls`. Every `struct file` is reached from exactly one place
  (`FilesAccounted`), writes are denied exactly while an image runs (`DenyExact`),
  no call or write-back changes a running image (`ImageUnchanged`, both in `ImageProtected`), and tables of
  structs file implement numbered descriptors (`ImplementsDescriptors`).
- `file_system`. The free map agrees with what files and open inodes own
  (`FreeMapExact`), a stop between two disk writes never leaves an entry with
  sectors that the map gives away (`CrashSafe`, `NoSharedSectors`), open and deny
  counts are exact, blocks are released once and only when marked (all in
  `MetadataConsistent`), and sectors and inodes implement `FileStore`.
- `devices`. Bytes go out and come in whole and in order, a waiter is remembered,
  the UART's interrupts are on whenever someone depends on them, one thread prints
  at a time, a panic prints what was queued (`ConsoleCorrect`). Between two commands the channel is
  quiet, and the driver implements `BlockStore`, in which only a sector that fails
  may keep its old contents after a write.
  Accesses through a partition stay in it, and devices of different roles are
  apart (`SectorsInPlace`, with the quiet channel). Modifier variables follow the keys, each character is one that the keys down stand
  for, and only Ctrl, Alt and Delete restart the machine (`KeyboardCorrect`).
  The assertions of `interrupt.c` hold, `intr_context` is exact with frames left on
  other stacks, and nothing stays in service at the controllers (`InterruptsCorrect`).
- `library`. No page is owned twice and the bitmap is exact (`AllocatorExact`); free lists and arenas
  agree whenever nobody has the descriptor's lock, blocks in use do not overlap and
  have the room asked for, no page is kept without a block in it, `realloc` keeps
  contents (`MallocExact`, for sizes whose sums do not wrap); the hash table
  implements a set through growing, shrinking and failing allocations, and an
  iteration meets every element (`ContainersSound`, with the links of lists); list operations on pointers implement sequences;
  quotients are exact and the machine division never overflows; heap sort sorts
  and binary search finds exactly what is there (`ResultsExact`).
- `liveness`. Ready threads run with `-aging`; sleepers wake; exec and wait return
  and no zombie outlives its parent (`ProcessesProgress`); a writer of the serial
  port goes on and an arrived byte is taken while there is room, and reaches a reader that
  waits for it; the holder of a disk channel returns or panics; every request of a
  device is delivered (all in `DevicesProgress`).

### Disagreements between the code and what it says

Three runs are violated; `findings` in `PROJECT.json` quotes both sides:

1. `cond_priority`: `cond_signal` wakes waiters in order of arrival,
   `doc/threads.texi` asks for the highest priority.
2. `process_walk`: `process_exit` calls `list_next` on an element of a child after
   the `sema_up` that lets the child be freed.
3. `process_memory`: a child that fails before it has a page directory is freed
   before its parent reads `is_loaded`, so exec may return its tid.

The modules also state these, which TLC refutes when the property is added to an
instance like the one of the run, and which no run keeps:

- `HolderInheritsPriority` (`Synch`): `doc/threads.texi:512` asks for donation,
  `synch.c:207` has none.
- `PriorityFresh` with `thread_set_priority` and `WaitersInOrder` (`Mlfqs`):
  `thread.c:690` stores the priority under `-mlfqs` too; a recalculation leaves the
  waiters of a semaphore in the old order, which `synch.c:73` says it keeps.
- `PanicOnlyWithoutVictim` (`VM`): two rounds of the clock hand (`frame.c:88`) may
  find no victim among evictable frames whose owners touch them again meanwhile.
- `PanicOnlyInEviction` (`VM`): the comment of `kill` (`exception.c:104`) says that
  page faults of the kernel should not arrive there; `construct_stack` writes through
  the user's address, and its page may have been evicted, with no memory for the fault.
- `MappedDataKept` (`VM`): when a swapped-out written page of a mapping cannot be
  brought back for want of memory, `page_unmap` frees the slot with its only copy.
- `SegmentReadable` (`Segment`): `load_segment` is still documented to return false on a
  read error (`process.c:787`), but only records the pages: a segment that runs past the
  end of its file is loaded, and the process dies at the first fault on a page that is
  not there.
- `EntriesKept` (`FileSys`, with `"read"` in `Failure`): `dir_add` takes a short
  read for the end of the directory and may write over an entry.
- `SeekIsNoError` (`Syscall`): a position of 2^31 or more is negative for
  `file_seek`, which asserts that it is not.
- `WaitAsserts` (`Console`): a second reader, held up at the queue's lock, enters
  `wait` of `intq.c` with a byte in the queue, which `intq.c:91` asserts not to be.
- `WriteAcknowledged` (`Disk`): `ide_write` does not look at the status after its data
  has gone out, so a write that fails then returns like any other; and with
  `MaxSpurious` 1, as `expecting_interrupt` is never reset, a spurious interrupt may
  let a later `ide_write` return early.
- `ReadsGivenSector` (`Partition`): `partition.c:91` reads sector 0 whatever sector
  it is given.
- `BigEnough` (`Malloc`, as a conjunct of `MallocExact` in the instance of `library`):
  `size + sizeof *a` (`malloc.c:109`) wraps for sizes near the end of `size_t`, and the
  product of `calloc` (`malloc.c:166`) may wrap. `RoomEnough`, which the run checks, says
  the same of sizes that do not.
- `RemainderExact` (`Arithmetic`): `umod64` and `smod64` return 32 bits.
- `FirstWordOpened` (`Arguments`): spaces before the first word stay in the name
  that `load` opens.

### Bounds

Three threads are the fewest in which two wait or are ready while a third acts; a
third priority adds an order among waiters. The clock saturates at `MaxTick`, and
no sleep is begun that would end later. `MaxValue` caps a semaphore that is upped
for nothing, `MaxIn` and `MaxOut` the bytes that come and go, `MaxRaise` the
requests of a device, `MaxSpurious` the spurious interrupts, `MaxMapId` the
mappings, `MaxLive` the live blocks. Three programs give a child, a sibling and a
grandchild. Two frames and one slot for four pages make every access evict and let
swap run full; two values tell a lost store from a kept one. A process has two
descriptors, and there are fewer structs file than the descriptors, programs and
mappings of two processes ask for, as the disk has fewer sectors than its files
ask for, so that all of them run out. In `UserMemory`, `Segment` and `Partition` addresses are few, and the
sizes, offsets and lengths tried lie on both sides of every boundary. `Malloc` has
three pages, so that they run out, one descriptor, whose arena is a page with two
blocks, and the sizes 0, 8 (all of a block), 17 (the least that needs two pages), 225
(the rounding to pages wraps, to none) and 250 (the sum wraps, to one page); the
products of `calloc` need all pages, need more than there are, or wrap. The least size
too big for a block, 9, is left out for the sake of the number of states. `process` leaves out the third outcome
of `load`, which finding 3 is about.

Symmetry is used for created threads, programs, processes, frames, inodes,
structs file and the threads that read, print or use a disk, none of which a definition tells apart; never in `liveness`.
Deadlock is checked except in `process` and `liveness`, where everything may have
exited or be powered off.

### Fairness

- `Thread`: strong fairness of the timer interrupt (the controller keeps a tick
  that comes during another handler), weak fairness of the handler. Nothing is
  assumed of threads, which may loop for ever.
- `Process`: weak fairness of what a process does inside the kernel; processes
  have the same priority and share the CPU in turn. A program need not make a
  system call.
- `Console`, `Disk`: weak fairness of a thread inside the driver, of the interrupt
  handler and of the device, which ends what it began. A thread in the console is
  fair once it was woken or waits for a lock, one in the disk driver once its call has
  begun. Nobody is assumed to begin a read, a print or a disk access, nor a byte to arrive.
- `Interrupts`: weak fairness of a handler's steps and strong fairness of the
  delivery of a device's request, and of code that turns interrupts on again.

## Proofs

The theorems hold for every value of the constants that the named assumption of a
module allows. Each component has one inductive invariant; its theorems follow
from that invariant and its proof has a step per action.

**Lists.** `KernelListProofs` shows what `list_push_back`, `list_pop_front` and
`list_remove` do to the elements of a list; `ThreadProofs` begins with a proof that
ordered insertion adds exactly one element and keeps a sequence sorted, for any
strict weak order. `KernelList` defines the few
operators on sequences it needs itself, so that the provers see no others.

**Scheduler.** `ThreadProofs` proves `TypeCorrect`, `ListsAlwaysMatchStatus`,
`ListsAlwaysSorted`, `HighestPriorityAlwaysRuns`, `AlwaysSleepsLongEnough` and
`NobodyEverOversleeps` from `ThreadAssumption`, with the invariant `IInv`:

- `RunInv`: status, current thread and `ready_list` agree, and it is sorted. The
  sortedness is what lets `thread_check_preempt` look only at the front;
- `SleepInv`: the sleepers are blocked, distinct and sorted by `wakeup_tick`;
  whoever is in its own code is past its time;
- `ControlInv`: the labels and the bounds of the counters; the idle thread is
  never inside a call; a time slice is used up only while a handler has
  `yield_on_return` set, which is reset when the handler ends;
- `PreemptInv`: nothing ready is above the running thread, unless the wake-ups
  of this tick are not over, `yield_on_return` is set, or the thread is on its way
  through `thread_check_preempt`. `HighestPriorityRuns` is not inductive without
  it: it says nothing of the states inside a handler.

**Synchronization.** `SynchInvariant` states the invariant `SInv` and what keeps each
part of it; `SynchProofs` has the theorems: `SynchInvariance`, `SynchRefinesThread`
(the refinement `ImplementsThread`), `NeverLostWakeup`, `WaiterListsAlways`,
`LockExclusionAlways` and `SignalNeverLost`, from `SynchAssumption`. Every step of
`Synch` is a step of `Thread` or none, so the scheduler's `IInv` is part of `SInv`
and need not be proved again. The rest:

- `OpInv`: what a thread may still have to do of its call, of a few shapes only;
- `ElemInv`: who is on a list of waiters is blocked at that `sema_down`, and who is
  blocked and not asleep is on such a list;
- `LockInv`: a lock's semaphore is 1, or it is 0 and one thread is its owner;
  `holder` is set between the two ends of the critical section only. It says who
  the owner is, where `LockExclusion` only counts;
- `CondInv`: a thread in `cond_wait` is listed, about to be upped, or upped;
- `WaitersSorted`, and `NoLostWakeup` itself, which counts the units of a semaphore
  against the finite set of threads that were woken or have yet to test it.

**Processes.** `ProcessProofs` proves `ProcessInvariance`, `ExecAlwaysReportsLoad` and
`ChildrenAlwaysReaped` under `StartsInMemory`: `load` does not fail before it has a
page directory. Without that both are false, as `process_memory` shows. The
invariant `PInv` says that a process is on one child list, once (`Kin`); which child
a call is about, and how far that child must have come (`CallInv`); that a listed
child has not been let go unless its parent exits (`KidInv`); and what a raised
semaphore or a stored result says about the child (`OwnInv`, `HoldInv`).

**System calls on files.** `SyscallProofs` proves `SyscallInvariance`,
`FilesAlwaysAccounted` and `ImageAlwaysProtected` from `SyscallAssumption`, for any
number of processes, descriptors, files and mappings. `FilesAccounted` counts; the
invariant `FInv` says who. `Held` names the places from which a `struct file` is
reached: a descriptor, the executable, a mapping, or the call that has opened it
and not yet stored it.

- `HoldInv`: a `struct file` is allocated exactly while one place holds it, and no
  two places hold the same one. This is what `file_close` relies on, and what each
  early return has to keep;
- `FileInv`: an open file has an inode, and denies writes exactly if it is held as
  an executable;
- `DenyInv`: `deny_write_cnt` of an inode is the number of processes that execute it.
  The count is above zero as long as there is one, so neither `write` nor the
  write-back of a mapping changes the content;
- `ImageInv`: the content a process was loaded from is still that of the inode;
- `LifeInv`, `CallInv`, `MapInv`: what a process may hold at each label;
  `process_exit` closes descriptors, executable and mappings in that order.

The lemmas about single steps take the laws of counting, and that a set of numbers
has a least element, as the hypothesis `CanCount`; `ProcsCounted` proves it from the
finiteness of `Proc`, so the theorems do not assume it.

**File system.** `FileSysProofs` proves `FileSysInvariance`,
`MetadataAlwaysConsistent`, `AlwaysCrashSafe`, `EntriesAlwaysKept` and
`FileSysRefinesFileStore` (the refinement `ImplementsFileStore`) for disks,
directories and numbers of open files of any size, whichever allocations and writes
of the free map fail. The theorems assume `ReadsWhole`: `inode_read_at` on the
directory does not fall short. Without it TLC refutes `EntriesKept`, as said above,
and with an entry overwritten its file keeps sectors that nothing leads to.
`FileSysAssumption` asks for finitely many handles, since the counts of an inode are
numbers of them, and for a `None` that is no content. `CanCount` is a hypothesis of
lemmas as above, and `HandlesCounted` proves it. The invariant `FsInv`:

- `InodeInv`: the inode of a live file, one with a name or an opener, is on the disk,
  the one in memory is a copy, and `removed` says that it has no name;
- `ApartInv` and `MapInv`: the reserved sectors, the lost ones, those of each live
  file and those of the call in progress do not overlap, and the free map marks
  exactly their union. The map on disk marks at least as much, which is why a
  crash gives no sector away twice;
- `EntryInv`: no two entries share a name or an inode;
- `OpInv`: what a create or a removal that is not over has done so far;
- `CountsExact`, a conjunct of `MetadataConsistent`, and `FileInv`.

For the refinement `ContentInv` adds that blocks of live files hold data, and that
those of a file not yet linked hold zeros. `dir_add` is the step that makes a file
exist, and clearing its entry the one that removes its name; every other step of
a create or of a removal changes nothing that `FileStore` sees, since its sectors
are apart from those of live files.

**Page allocator.** `PallocProofs` proves `AllocatorAlwaysExact` for any pools. The
invariant has to speak of calls under way: whoever scans or marks has the pool's
lock (`Locked`), and the bits it has found clear stay clear until it marks them
(`FoundClear`), although others clear bits without the lock meanwhile. `Exclusive` says
that the pages handed out and those on their way do not overlap, so that the bits
`palloc_free_multiple` tests and clears are its caller's alone.

Only model-checked: liveness, and what recursive definitions compute (`List`, `Hash`,
`Arithmetic`, `Arguments`), both beyond the prover; the refinements other than
`ImplementsThread` and `ImplementsFileStore`, `ImplementsDescriptors` of the system
calls among them; and the components no paragraph above names.

## Not modelled

- `threads/loader.S`, `start.S`, `switch.S`, `userprog/gdt.c`, `tss.c`: boot code
  and tables in the processor's format.
- `devices/vga.c`, `rtc.c`, `pit.c`, `speaker.c`, `shutdown.c`: port I/O without
  state that anything else depends on.
- `filesys/fsutil.c`, `lib/ustar.c`: sequential utilities run once from the command
  line of the kernel.
- `lib/stdio.c`, most of `lib/string.c`, `lib/random.c`, `lib/user/`, examples and
  tests: formatting and user code, without state of the kernel.
- Calibration and busy waiting of `devices/timer.c`, which count instructions.
- The two-level layout of page tables, and the bytes within a page or a sector.
- Machine-code effects below the C source, such as the reordering of writes by the
  compiler around `barrier`.

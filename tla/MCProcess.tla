----------------------------- MODULE MCProcess -----------------------------
(*****************************************************************************)
(* User programs, checked in one run: a behaviour is one of Process (exec,   *)
(* wait and exit), Arguments (the command line), UserMemory (the checks of   *)
(* a system call's pointers) or Segment (load_segment () and mmap ()), as    *)
(* part says, and leaves the state of Process as it was unless that is the   *)
(* one. The others do not share state; variables of the same name are one    *)
(* variable here, and those a component does not have hold Unused. The       *)
(* programs of Process are interchangeable.                                  *)
(*****************************************************************************)
EXTENDS Process, TLC

CONSTANTS p1, p2, p3, NULL, Unused

VARIABLES part,     \* the component of this behaviour
          step,     \* the pc of Arguments, UserMemory and Segment
          cmdline, fn_copy, name, Prog_name, Cmd_copy, save_ptr, Argv, argc, i,
          mem, esp, writable, readonly, user_esp, addr, unit, count, write,
          page, kind, phdr, file_length, spt, seg

Programs == Permutations({p1, p2, p3})

Letters == {97, 98}

\* Three programs, started by main or by each other; every line of up to nine spaces
\* and letters, of which Cmd_copy holds seven, with room for four words as in the code
\* (64 of 127 characters); an address space of three user pages and as much kernel
\* memory; one of eight pages, the upper two the kernel's.

A == INSTANCE Arguments WITH pc <- step, Letter <- Letters, MaxLine <- 9,
  MAX_CMD_LEN <- 8, MAX_ARGC <- 4, NAME_SIZE <- 4, PGSIZE <- 64,
  Files <- UNION {[1 .. n -> Letters] : n \in 1 .. 9}
U == INSTANCE UserMemory WITH pc <- step, Width <- 5, PGSIZE <- 4,
  PHYS_BASE <- 16, STACK_LIMIT <- 8, Pusha <- 2, Esp <- {1, 9, 11, 16},
  Size <- {0, 1, 2, 4, 5, 9, 16, 31}, Word <- 2
G == INSTANCE Segment WITH pc <- step, Width <- 5, PGSIZE <- 4,
  PHYS_BASE <- 24, Vaddr <- {0, 2, 4, 5, 7, 12, 18, 20, 22, 23, 24, 30},
  FileLength <- {0, 3, 8, 9}, Offset <- {0, 1, 2, 3, 4, 5, 7, 8},
  Length <- {0, 1, 3, 4, 5, 9, 16, 20, 28, 31}, Taken <- {12}, MayFail <- TRUE

ASSUME ProcessAssumption /\ A!SizesAssumption /\ U!UserMemoryAssumption /\ G!SegmentAssumption

otherVars == <<step, cmdline, fn_copy, name, Prog_name, Cmd_copy, save_ptr,
  Argv, argc, i, mem, esp, writable, readonly, user_esp, addr, unit, count,
  write, page, kind, phdr, file_length, spt, seg>>
UserVars == <<part, vars, otherVars>>

UserInit ==
  /\ Init
  /\ \/ /\ part = "process"
        /\ step = Unused /\ cmdline = Unused /\ fn_copy = Unused
        /\ name = Unused /\ Prog_name = Unused /\ Cmd_copy = Unused
        /\ save_ptr = Unused /\ Argv = Unused /\ argc = Unused /\ i = Unused
        /\ mem = Unused /\ esp = Unused /\ writable = Unused
        /\ readonly = Unused /\ user_esp = Unused /\ addr = Unused
        /\ unit = Unused /\ count = Unused /\ write = Unused /\ page = Unused
        /\ kind = Unused /\ phdr = Unused /\ file_length = Unused
        /\ spt = Unused /\ seg = Unused
     \/ /\ part = "arguments" /\ A!Init
        /\ writable = Unused /\ readonly = Unused /\ user_esp = Unused
        /\ addr = Unused /\ unit = Unused /\ count = Unused /\ write = Unused
        /\ page = Unused /\ kind = Unused /\ phdr = Unused
        /\ file_length = Unused /\ spt = Unused /\ seg = Unused
     \/ /\ part = "memory" /\ U!Init
        /\ cmdline = Unused /\ fn_copy = Unused /\ name = Unused
        /\ Prog_name = Unused /\ Cmd_copy = Unused /\ save_ptr = Unused
        /\ Argv = Unused /\ argc = Unused /\ mem = Unused /\ esp = Unused
        /\ kind = Unused /\ phdr = Unused /\ file_length = Unused
        /\ spt = Unused /\ seg = Unused
     \/ /\ part = "segment" /\ G!Init
        /\ cmdline = Unused /\ fn_copy = Unused /\ name = Unused
        /\ Prog_name = Unused /\ Cmd_copy = Unused /\ save_ptr = Unused
        /\ Argv = Unused /\ argc = Unused /\ i = Unused /\ mem = Unused
        /\ esp = Unused /\ writable = Unused /\ readonly = Unused
        /\ user_esp = Unused /\ addr = Unused /\ unit = Unused
        /\ count = Unused /\ write = Unused /\ page = Unused

UserNext ==
  \/ part = "process" /\ Next /\ UNCHANGED <<part, otherVars>>
  \/ /\ part = "arguments" /\ A!Next
     /\ UNCHANGED <<part, vars, writable, readonly, user_esp, addr, unit,
                   count, write, page, kind, phdr, file_length, spt, seg>>
  \/ /\ part = "memory" /\ U!Next
     /\ UNCHANGED <<part, vars, cmdline, fn_copy, name, Prog_name, Cmd_copy,
                   save_ptr, Argv, argc, mem, esp, kind, phdr, file_length,
                   spt, seg>>
  \/ /\ part = "segment" /\ G!Next
     /\ UNCHANGED <<part, vars, cmdline, fn_copy, name, Prog_name, Cmd_copy,
                   save_ptr, Argv, argc, i, mem, esp, writable, readonly,
                   user_esp, addr, unit, count, write, page>>

UserSpec == UserInit /\ [][UserNext]_UserVars

-----------------------------------------------------------------------------
(* Properties: those of Process, which the behaviours of the others leave in *)
(* its initial state, and those of each of the others in its behaviours.     *)

\* main () finds at the top of its stack the words of the command line that fit in
\* Cmd_copy and Argv, in order and aligned from the null pointer down
\* (construct_stack ()); the program load () opens is the one argv[0] names, and the
\* thread has its name up to the length of t->name, although each of the three splits
\* the line anew.
ArgumentsArrive ==
  part = "arguments" => A!TypeOK /\ A!ArgumentsArrive /\ A!WordsAligned /\ A!NamesAgree

\* When the checks of a system call's pointer pass, the kernel can use every byte of it
\* without a fault, and no process is killed over a pointer to memory it could have
\* used itself (check_address (), check_writable (), check_string ()).
PointersChecked ==
  part = "memory" => U!TypeOK /\ U!PassedIsAccessible /\ U!KilledForCause

\* A segment that load () accepted is recorded byte for byte, for every value of the
\* header's fields, and a fault can fill its pages unless the file ends before them;
\* load_segment ()'s assertion holds and its loop ends; a mapping shows every byte of the
\* file once, and an mmap () that fails leaves no page of it behind; and both keep what
\* the pages that were there before hold.
PagesExact ==
  /\ [](part = "segment" =>
          G!TypeOK /\ G!SegmentInPlace /\ G!SizesWellFormed /\ G!MappingExact)
  /\ [][part = "segment" =>
          \A a \in DOMAIN spt : spt[a] # {} /\ a \notin G!New => spt'[a] = spt[a]]_UserVars
=============================================================================

----------------------------- MODULE UserMemory -----------------------------
(***************************************************************************)
(* The checks a system call makes of the user's memory before it uses it   *)
(* (check_address (), check_writable (), check_string () and               *)
(* get_argument () of userprog/syscall.c, page_is_stack_access () of       *)
(* vm/page.c), over addresses of Width bits, page by page.  The run checks *)
(* them against what page_fault () grants the user itself.                 *)
(*                                                                         *)
(* A call checks `count' pieces of `unit' bytes from addr on: a buffer is  *)
(* one piece, a string pieces of a byte, the arguments pieces of a word.   *)
(***************************************************************************)
EXTENDS Integers, FiniteSets

CONSTANTS
  Width,           \* of an address
  PGSIZE, PHYS_BASE,
  STACK_LIMIT, Pusha,   \* how far below PHYS_BASE and below esp the stack may grow
  Esp, Size, Word       \* stack pointers, buffer sizes and the size of an int to try

UserMemoryAssumption ==
  /\ Width \in Nat /\ PGSIZE \in Nat \ {0}
  /\ PHYS_BASE < 2 ^ Width /\ PHYS_BASE % PGSIZE = 0
  /\ Esp \subseteq 0 .. 2 ^ Width - 1 /\ Size \subseteq 0 .. 2 ^ Width - 1

Address == 0 .. 2 ^ Width - 1

\* Pages of the user that can be mapped: page 0 never is.
Page == {a \in Address : a % PGSIZE = 0 /\ 0 < a /\ a < PHYS_BASE}

VARIABLES
  writable,        \* Spt: the pages that may be written ...
  readonly,        \* ... and those that may only be read
  user_esp,
  addr, unit, count, write,   \* the call's arguments
  i,               \* the piece being checked
  page,            \* the page being checked
  pc

vars == <<writable, readonly, user_esp, addr, unit, count, write, i, page, pc>>
args == <<readonly, user_esp, addr, unit, count, write>>

Add(x, y) == (x + y) % 2 ^ Width

is_user_vaddr(a) == a < PHYS_BASE

pg_round_down(a) == a - (a % PGSIZE)

Spt == writable \cup readonly

page_is_stack_access(a, esp) ==
  /\ is_user_vaddr(a)
  /\ a >= PHYS_BASE - STACK_LIMIT
  /\ a >= Add(esp, 2 ^ Width - Pusha)

Begin == Add(addr, i * unit)
End == Add(Begin, unit + 2 ^ Width - 1)

Done(label) == pc' = label /\ UNCHANGED <<args, writable, i, page>>

\* Changed form, for the mutation runs: a range that wraps around is not refused.
check_address_wrap ==
  /\ pc = "check"
  /\ \/ i = count /\ Done(IF write THEN "check_writable" ELSE "ok")
     \/ i < count /\ unit = 0 /\ i' = i + 1 /\ UNCHANGED <<args, writable, page, pc>>
     \/ i < count /\ unit # 0 /\ Begin = 0 /\ Done("exit")
     \/ i < count /\ unit # 0 /\ Begin # 0 /\ FALSE /\ Done("exit")
     \/ /\ i < count /\ unit # 0 /\ Begin # 0 
        /\ IF ~is_user_vaddr(Begin) \/ ~is_user_vaddr(End) THEN Done("exit")
           ELSE /\ page' = pg_round_down(Begin)
                /\ pc' = "page"
                /\ UNCHANGED <<args, writable, i>>

\* check_address () of the next piece, up to its loop.
check_address ==
  /\ pc = "check"
  /\ \/ i = count /\ Done(IF write THEN "check_writable" ELSE "ok")
     \/ i < count /\ unit = 0 /\ i' = i + 1 /\ UNCHANGED <<args, writable, page, pc>>
     \/ i < count /\ unit # 0 /\ Begin = 0 /\ Done("exit")
     \/ i < count /\ unit # 0 /\ Begin # 0 /\ End < Begin /\ Done("exit")
     \/ /\ i < count /\ unit # 0 /\ Begin # 0 /\ ~(End < Begin)
        /\ IF ~is_user_vaddr(Begin) \/ ~is_user_vaddr(End) THEN Done("exit")
           ELSE /\ page' = pg_round_down(Begin)
                /\ pc' = "page"
                /\ UNCHANGED <<args, writable, i>>

\* A turn of its loop: the page is in the Spt, or the stack grows to it.
check_page ==
  LET a == IF page < Begin THEN Begin ELSE page
  IN  /\ pc = "page"
      /\ \/ /\ page > End
            /\ i' = i + 1 /\ pc' = "check"
            /\ UNCHANGED <<args, writable, page>>
         \/ /\ page <= End /\ page \in Spt
            /\ page' = page + PGSIZE
            /\ UNCHANGED <<args, writable, i, pc>>
         \/ /\ page <= End /\ page \notin Spt /\ page_is_stack_access(a, user_esp)
            /\ writable' = writable \cup {page}
            /\ page' = page + PGSIZE
            /\ UNCHANGED <<args, i, pc>>
         \/ /\ page <= End /\ page \notin Spt /\ ~page_is_stack_access(a, user_esp)
            /\ Done("exit")

\* check_writable () after check_address () returned: read () writes the buffer.
check_writable ==
  LET end == Add(addr, unit + 2 ^ Width - 1)
      pages == {p \in Page : pg_round_down(addr) <= p /\ p <= end}
  IN  /\ pc = "check_writable"
      /\ Done(IF unit # 0 /\ ~(pages \subseteq writable) THEN "exit" ELSE "ok")

Init ==
  /\ writable \in SUBSET Page
  /\ readonly \in SUBSET (Page \ writable)
  /\ user_esp \in Esp
  /\ addr \in Address
  /\ \/ unit \in Size /\ count = 1 /\ write \in BOOLEAN      \* buffers
     \/ unit = 1 /\ count \in {2, 3, PGSIZE + 1} /\ write = FALSE   \* strings
     \/ unit = Word /\ count \in 1 .. 4 /\ write = FALSE     \* arguments
  /\ i = 0 /\ page = 0 /\ pc = "check"

Next ==
  \/ check_address \/ check_page \/ check_writable
  \/ pc \in {"ok", "exit"} /\ UNCHANGED vars

Spec == Init /\ [][Next]_vars

-----------------------------------------------------------------------------
(* Properties.                                                             *)

\* Type invariant.
TypeOK ==
  /\ writable \subseteq Page /\ readonly \subseteq Page /\ writable \cap readonly = {}
  /\ i \in 0 .. count
  /\ pc \in {"check", "page", "check_writable", "ok", "exit"}

\* The bytes the call is about to use.
Bytes == {Add(addr, k) : k \in 0 .. count * unit - 1}

\* When the checks pass, the kernel can use every byte without a fault: all lie in
\* user pages of the Spt, which may be written if the call writes them.
PassedIsAccessible ==
  pc = "ok" => \A b \in Bytes : pg_round_down(b) \in IF write THEN writable ELSE Spt

\* What page_fault () grants a user that touches byte b: a page of the Spt, or one
\* the stack may grow to.  Of the bytes of one page only the first one matters.
UserMay(b) ==
  \/ pg_round_down(b) \in IF write THEN writable ELSE Spt
  \/ pg_round_down(b) \notin Spt /\ b > 0 /\ page_is_stack_access(b, user_esp)

First(b) == \A c \in Bytes : pg_round_down(c) = pg_round_down(b) => b <= c

\* No process is killed with exit (-1) for memory it could have used itself, one
\* byte after the other: rounding, the end of the range and the address arithmetic
\* that wraps refuse nothing else.
KilledForCause == pc = "exit" => \E b \in Bytes : First(b) /\ ~UserMay(b)
=============================================================================

--------------------------------- MODULE VM ---------------------------------
(***************************************************************************)
(* Virtual memory: the frame table and its eviction (vm/frame.c), the      *)
(* supplemental page table and page faults (vm/page.c, page_fault ()), the *)
(* swap table (vm/swap.c) and page tables (userprog/pagedir.c), driven by  *)
(* user accesses, system calls that pin their buffers, mmap, munmap, load  *)
(* and exit.                                                               *)
(*                                                                         *)
(* A section under Frame_lock or Filesys_lock that cannot be preempted     *)
(* into seeing another's half-done work is one step that waits for the     *)
(* lock; frame_evict () holds Frame_lock over many steps, load () and the  *)
(* copying system calls hold Filesys_lock over many.  Swap_lock covers     *)
(* single bitmap operations only.  A page's contents are one value.        *)
(***************************************************************************)
EXTENDS Integers, Sequences, SequencesExt, FiniteSets, FiniteSetsExt

CONSTANTS
  Proc,
  Page, BinPage, ReadOnly, StackTop, GrowPage, MmapPage,
  Kpage,           \* the user pool: physical pages by kernel address
  SlotCnt,         \* slots of the swap device
  Val, Zero, BinVal,
  Nil,
  Failure          \* allocations that may fail: "malloc", "read", "pagetable"

VMAssumption ==
  /\ Page = BinPage \cup {StackTop} \cup GrowPage \cup MmapPage
  /\ ReadOnly \subseteq BinPage
  /\ {Zero, BinVal} \subseteq Val
  /\ SlotCnt \in Nat
  /\ Nil \notin Kpage \cup Proc
  /\ Failure \subseteq {"malloc", "read", "pagetable"}

Slot == 0 .. SlotCnt - 1

VARIABLES
  spt,             \* Spt: the struct page of each page of a process
  pte,             \* its page table entry
  Frame_list,      \* the structs frame in list order
  Clock_hand,      \* the kpage of the frame the hand is at; Nil: NULL or the end
  pool,            \* free pages of the user pool
  ram,             \* contents of a physical page
  Swap_bitmap,     \* slots in use
  swap_disk,       \* contents of a slot
  file,            \* contents of the file a process maps at a page
  Frame_lock, Filesys_lock,
  ev,              \* locals of frame_evict (), of which one call runs at a time
  pc,
  call,            \* locals of the calls a process is in, see Idle
  store            \* the process, page and value of the step that last stored, if any

frameVars == <<Frame_list, Clock_hand>>
swapVars  == <<Swap_bitmap, swap_disk>>
lockVars  == <<Frame_lock, Filesys_lock>>
vars == <<spt, pte, frameVars, pool, ram, swapVars, file, lockVars, ev, pc, call, store>>

NoPage == [type |-> "none", kpage |-> Nil, slot |-> Nil]
NoPte  == [table |-> FALSE, kpage |-> Nil, present |-> FALSE, accessed |-> FALSE, dirty |-> FALSE]

\* An entry that is not present and whose other bits nothing reads any more; the
\* page table that holds it stays.
GonePte == [NoPte EXCEPT !.table = TRUE]

\* page: the page in hand; kpage: the frame for it; from_swap: handle_mm_fault ()'s
\* local; ret, after: where handle_mm_fault () and page_pin () return to; todo: the
\* pages page_unmap () has yet to deal with; exiting: in process_exit ().
Idle == [page |-> Nil, kpage |-> Nil, from_swap |-> FALSE, ret |-> Nil, after |-> Nil,
         todo |-> {}, exiting |-> FALSE]

NoEv   == [i |-> 0, n |-> 0, kpage |-> Nil, owner |-> Nil, page |-> Nil, slot |-> Nil]

Fresh(type) == [type |-> type, kpage |-> Nil, slot |-> Nil]

Mapped(p) == {u \in Page : spt[p][u] # NoPage}

\* p goes on at a label with the locals c, which a return to user code drops.
Go(p, label, c) ==
  /\ pc' = [pc EXCEPT ![p] = label]
  /\ call' = [call EXCEPT ![p] = IF label \in {"user", "none"} THEN Idle ELSE c]

Goto(p, label) == Go(p, label, call[p])

-----------------------------------------------------------------------------
(* The frame table.                                                        *)

Frame(k) == CHOOSE f \in Range(Frame_list) : f.kpage = k

InList(k) == \E f \in Range(Frame_list) : f.kpage = k

\* The hand after the frames whose kpage is in S are taken off the list.
HandWithout(S) ==
  IF Clock_hand \notin S THEN Clock_hand
  ELSE LET i == CHOOSE j \in DOMAIN Frame_list : Frame_list[j].kpage = Clock_hand
           rest == {j \in i .. Len(Frame_list) : Frame_list[j].kpage \notin S}
       IN  IF rest = {} THEN Nil ELSE Frame_list[Min(rest)].kpage

Unlist(S) ==
  /\ Clock_hand' = HandWithout(S)
  /\ Frame_list' = SelectSeq(Frame_list, LAMBDA f : f.kpage \notin S)

\* palloc_free_page () of each, which overwrites the page ...
palloc_free(S) ==
  /\ pool' = pool \cup S
  /\ ram' = [k \in Kpage |-> IF k \in S THEN Nil ELSE ram[k]]

\* ... and swap_free (), after which nothing may read the slot.
swap_free(S) ==
  /\ Swap_bitmap' = Swap_bitmap \ S
  /\ swap_disk' = [x \in Slot |-> IF x \in S THEN Nil ELSE swap_disk[x]]

\* Where k is on the list.
At(k) == {i \in DOMAIN Frame_list : Frame_list[i].kpage = k}

SetPinned(I, pinned) ==
  Frame_list' = [i \in DOMAIN Frame_list |->
                   IF i \in I THEN [Frame_list[i] EXCEPT !.pinned = pinned] ELSE Frame_list[i]]

-----------------------------------------------------------------------------
(* page_fault () and where its outcomes lead.                              *)

\* kill () of a process, or of the kernel when the fault was its own.
Kill(p, u, r) ==
  /\ Go(p, IF r = "user" THEN "kill" ELSE "panic", [call[p] EXCEPT !.page = u])
  /\ UNCHANGED spt

\* A fault of p at page u, in user code (r = "user") or in the kernel.
page_fault(p, u, write, r) ==
  LET e == spt[p][u]
      present == pte[p][u].present
      legal == e # NoPage /\ e.kpage = Nil /\ (write => u \notin ReadOnly)
      grows == e = NoPage /\ u \in GrowPage
      serve == Go(p, "alloc", [call[p] EXCEPT !.page = u, !.ret = r])
  IN  /\ \/ ~present /\ legal /\ serve /\ UNCHANGED spt
         \/ /\ ~present /\ grows /\ serve        \* page_grow_stack ()
            /\ spt' = [spt EXCEPT ![p][u] = Fresh("PAGE_ANON")]
         \/ (present \/ ~(legal \/ grows)) /\ Kill(p, u, r)
         \/ ~present /\ grows /\ "malloc" \in Failure /\ Kill(p, u, r)
      /\ UNCHANGED <<pte, frameVars, pool, ram, swapVars, file, lockVars, ev>>

\* handle_mm_fault () returns false to its caller.
FaultFails(p) ==
  Go(p, CASE call[p].ret \in {"user", "check"} -> "nomem"
            [] call[p].ret = "pin" -> IF call[p].after = "unmap_dirty" THEN "discard" ELSE "nomem"
            [] call[p].ret = "setup_stack" -> "load_failed"
            [] OTHER -> "panic",
     [call[p] EXCEPT !.kpage = Nil, !.from_swap = FALSE])

-----------------------------------------------------------------------------
(* User code.                                                              *)

Touch(p, u, write) ==
  pte' = [pte EXCEPT ![p][u].accessed = TRUE, ![p][u].dirty = @ \/ write]

user_read(p, u) ==
  /\ pc[p] = "user"
  /\ IF pte[p][u].present
     THEN /\ Touch(p, u, FALSE)
          /\ UNCHANGED <<spt, frameVars, pool, ram, swapVars, file, lockVars, ev, pc, call>>
     ELSE page_fault(p, u, FALSE, "user")

user_write(p, u, v) ==
  /\ pc[p] = "user"
  /\ IF pte[p][u].present /\ u \notin ReadOnly
     THEN /\ Touch(p, u, TRUE)
          /\ ram' = [ram EXCEPT ![pte[p][u].kpage] = v]
          /\ UNCHANGED <<spt, frameVars, pool, swapVars, file, lockVars, ev, pc, call>>
     ELSE page_fault(p, u, TRUE, "user")

-----------------------------------------------------------------------------
(* frame_alloc () and frame_evict ().                                      *)

\* A frame k for p: PAL_ZERO clears it for setup_stack ().
GotFrame(p, k) ==
  /\ Go(p, "enlist", [call[p] EXCEPT !.kpage = k])
  /\ ram' = IF call[p].ret = "setup_stack" THEN [ram EXCEPT ![k] = Zero] ELSE ram

frame_alloc(p) ==
  /\ pc[p] = "alloc"
  /\ \/ \E k \in pool : pool' = pool \ {k} /\ GotFrame(p, k)
     \/ pool = {} /\ Goto(p, "evict") /\ UNCHANGED <<pool, ram>>
  /\ UNCHANGED <<spt, pte, frameVars, swapVars, file, lockVars, ev>>

frame_evict(p) ==
  /\ pc[p] = "evict"
  /\ Frame_lock = Nil
  /\ Frame_lock' = p
  /\ ev' = [NoEv EXCEPT !.n = Len(Frame_list)]
  /\ Goto(p, "scan")
  /\ UNCHANGED <<spt, pte, frameVars, pool, ram, swapVars, file, Filesys_lock>>

\* One turn of the second-chance loop.
frame_evict_scan(p) ==
  /\ pc[p] = "scan"
  /\ IF ev.i = 2 * ev.n
     THEN Goto(p, "panic") /\ UNCHANGED <<Clock_hand, pte, ev>>
     ELSE LET f == Frame(IF Clock_hand = Nil THEN Head(Frame_list).kpage ELSE Clock_hand)
              i == CHOOSE j \in DOMAIN Frame_list : Frame_list[j] = f
          IN  /\ Clock_hand' = IF i = Len(Frame_list) THEN Nil ELSE Frame_list[i + 1].kpage
              /\ IF f.pinned \/ ~f.page \/ pte[f.owner][f.upage].accessed
                 THEN /\ ev' = [ev EXCEPT !.i = @ + 1]
                      /\ pte' = IF f.pinned \/ ~f.page THEN pte
                                ELSE [pte EXCEPT ![f.owner][f.upage].accessed = FALSE]
                      /\ UNCHANGED pc
                 ELSE /\ ev' = [ev EXCEPT !.kpage = f.kpage, !.owner = f.owner, !.page = f.upage]
                      /\ Goto(p, "unlink")
                      /\ UNCHANGED pte
  /\ UNCHANGED <<spt, Frame_list, pool, ram, swapVars, file, lockVars, call>>

\* Changed form, for the mutation runs: p->kpage is not cleared before the entry.
frame_evict_unlink_kpage(p) ==
  /\ pc[p] = "unlink"
  /\ Unlist({ev.kpage})
  /\ Goto(p, "clear")
  /\ UNCHANGED <<spt, pte, pool, ram, swapVars, file, lockVars, ev>>

frame_evict_unlink(p) ==
  /\ pc[p] = "unlink"
  /\ Unlist({ev.kpage})
  /\ spt' = [spt EXCEPT ![ev.owner][ev.page].kpage = Nil]
  /\ Goto(p, "clear")
  /\ UNCHANGED <<pte, pool, ram, swapVars, file, lockVars, ev>>

frame_evict_clear(p) ==
  /\ pc[p] = "clear"
  /\ pte' = [pte EXCEPT ![ev.owner][ev.page].present = FALSE]
  /\ Goto(p, "swap_out")
  /\ UNCHANGED <<spt, frameVars, pool, ram, swapVars, file, lockVars, ev>>

\* swap_out (), for a page that differs from its origin.
swap_out(p) ==
  LET e == spt[ev.owner][ev.page]
      unused == Slot \ Swap_bitmap
  IN  /\ pc[p] = "swap_out"
      /\ \/ /\ e.type # "PAGE_ANON" /\ ~pte[ev.owner][ev.page].dirty
            /\ Goto(p, "evicted")
            /\ UNCHANGED <<swapVars, ev>>
         \/ /\ e.type = "PAGE_ANON" \/ pte[ev.owner][ev.page].dirty
            /\ IF unused = {}
               THEN Goto(p, "panic") /\ UNCHANGED <<swapVars, ev>>
               ELSE /\ ev' = [ev EXCEPT !.slot = Min(unused)]
                    /\ Swap_bitmap' = Swap_bitmap \cup {Min(unused)}
                    /\ swap_disk' = [swap_disk EXCEPT ![Min(unused)] = ram[ev.kpage]]
                    /\ Goto(p, "evicted")
      /\ UNCHANGED <<spt, pte, frameVars, pool, ram, file, lockVars>>

frame_evict_end(p) ==
  /\ pc[p] = "evicted"
  /\ spt' = IF ev.slot = Nil THEN spt
            ELSE [spt EXCEPT ![ev.owner][ev.page].slot = ev.slot,
                             ![ev.owner][ev.page].type =
                               IF @ = "PAGE_BIN" THEN "PAGE_ANON" ELSE @]
  /\ pte' = [pte EXCEPT ![ev.owner][ev.page] = IF @.present THEN @ ELSE GonePte]
  /\ Frame_lock' = Nil
  /\ GotFrame(p, ev.kpage)
  /\ ev' = NoEv
  /\ UNCHANGED <<frameVars, pool, swapVars, file, Filesys_lock>>

\* The rest of frame_alloc ().
frame_alloc_enlist(p) ==
  /\ pc[p] = "enlist"
  /\ \/ /\ Frame_lock = Nil
        /\ Frame_list' = Append(Frame_list, [kpage |-> call[p].kpage, owner |-> p, upage |-> call[p].page,
                                             page |-> FALSE, pinned |-> TRUE])
        /\ Goto(p, IF call[p].ret = "setup_stack" THEN "map" ELSE "fill")
        /\ UNCHANGED <<pool, ram>>
     \/ /\ "malloc" \in Failure
        /\ palloc_free({call[p].kpage})
        /\ FaultFails(p)
        /\ UNCHANGED Frame_list
  /\ UNCHANGED <<spt, pte, Clock_hand, swapVars, file, lockVars, ev>>

-----------------------------------------------------------------------------
(* The rest of handle_mm_fault (): fill, swap in, map, install.            *)

\* What a page of this type holds before it was ever written.
Origin(p, u, type) ==
  CASE type = "PAGE_MMAP" -> file[p][u]
    [] type = "PAGE_BIN"  -> BinVal
    [] OTHER -> Zero

fill(p) ==
  LET e == spt[p][call[p].page]
      from_file == e.type \in {"PAGE_BIN", "PAGE_MMAP"}
      next == IF e.slot # Nil THEN "swap_in" ELSE "map"
  IN  /\ pc[p] = "fill"
      /\ from_file => Filesys_lock \in {Nil, p}
      /\ IF from_file /\ Filesys_lock = p     \* lock_acquire ()'s assertion
         THEN Goto(p, "panic") /\ UNCHANGED ram
         ELSE \/ /\ ram' = [ram EXCEPT ![call[p].kpage] = Origin(p, call[p].page, e.type)]
                 /\ Go(p, next, [call[p] EXCEPT !.from_swap = e.slot # Nil])
              \/ from_file /\ "read" \in Failure /\ Goto(p, "undo") /\ UNCHANGED ram
      /\ UNCHANGED <<spt, pte, frameVars, pool, swapVars, file, lockVars, ev>>

\* swap_in () reads the slot, and only then gives it up.
swap_in(p) ==
  /\ pc[p] = "swap_in"
  /\ ram' = [ram EXCEPT ![call[p].kpage] = swap_disk[spt[p][call[p].page].slot]]
  /\ Goto(p, "swap_reset")
  /\ UNCHANGED <<spt, pte, frameVars, pool, swapVars, file, lockVars, ev>>

swap_reset(p) ==
  /\ pc[p] = "swap_reset"
  /\ swap_free({spt[p][call[p].page].slot})
  /\ Goto(p, "swap_clear")
  /\ UNCHANGED <<spt, pte, frameVars, pool, ram, file, lockVars, ev>>

\* The entry forgets the slot, which may be another page's by now.
swap_clear(p) ==
  /\ pc[p] = "swap_clear"
  /\ spt' = [spt EXCEPT ![p][call[p].page].slot = Nil]
  /\ Goto(p, "map")
  /\ UNCHANGED <<pte, frameVars, pool, ram, swapVars, file, lockVars, ev>>

\* Changed form, for the mutation runs: the dirty bit of a page from swap is lost.
map_clean(p) ==
  LET u == call[p].page
  IN  /\ pc[p] = "map"
      /\ \/ /\ pte' = [pte EXCEPT ![p][u] =
                         [table |-> TRUE, kpage |-> call[p].kpage, present |-> TRUE,
                          accessed |-> FALSE, dirty |-> FALSE]]
            /\ Goto(p, "install")
         \/ /\ ~pte[p][u].table /\ "pagetable" \in Failure
            /\ Goto(p, "undo")
            /\ UNCHANGED pte
      /\ UNCHANGED <<spt, frameVars, pool, ram, swapVars, file, lockVars, ev>>

\* pagedir_set_page () needs memory only where the process never had a page.
map(p) ==
  LET u == call[p].page
  IN  /\ pc[p] = "map"
      /\ \/ /\ pte' = [pte EXCEPT ![p][u] =
                         [table |-> TRUE, kpage |-> call[p].kpage, present |-> TRUE,
                          accessed |-> FALSE, dirty |-> spt[p][u].type = "PAGE_MMAP" /\ call[p].from_swap]]
            /\ Goto(p, "install")
         \/ /\ ~pte[p][u].table /\ "pagetable" \in Failure
            /\ Goto(p, "undo")
            /\ UNCHANGED pte
      /\ UNCHANGED <<spt, frameVars, pool, ram, swapVars, file, lockVars, ev>>

frame_install(p) ==
  /\ pc[p] = "install"
  /\ Frame_lock = Nil
  /\ spt' = [spt EXCEPT ![p][call[p].page].kpage = call[p].kpage]
  /\ Frame_list' = [i \in DOMAIN Frame_list |->
                      IF i \in At(call[p].kpage)
                      THEN [Frame_list[i] EXCEPT !.page = TRUE, !.pinned = FALSE]
                      ELSE Frame_list[i]]
  /\ Go(p, IF call[p].ret = "setup_stack" THEN "construct" ELSE call[p].ret,
        [call[p] EXCEPT !.kpage = Nil, !.from_swap = FALSE, !.ret = Nil])
  /\ UNCHANGED <<pte, Clock_hand, pool, ram, swapVars, file, lockVars, ev>>

\* frame_free (), by handle_mm_fault () or page_unmap (): the frame leaves the list ...
frame_free(p) ==
  /\ pc[p] \in {"undo", "unmap_free"}
  /\ Frame_lock = Nil
  /\ Unlist({call[p].kpage})
  /\ Goto(p, IF pc[p] = "undo" THEN "undo_page" ELSE "unmap_page")
  /\ UNCHANGED <<spt, pte, pool, ram, swapVars, file, lockVars, ev>>

\* ... and, after Frame_lock was released, its page goes back to the pool.
frame_free_page(p) ==
  /\ pc[p] \in {"undo_page", "unmap_page"}
  /\ palloc_free({call[p].kpage})
  /\ IF pc[p] = "undo_page" THEN FaultFails(p) ELSE Go(p, "discard", [call[p] EXCEPT !.kpage = Nil])
  /\ UNCHANGED <<spt, pte, frameVars, swapVars, file, lockVars, ev>>

\* Changed form, for the mutation runs: page_pin () only brings the page in.
page_pin_not(p) ==
  LET e == spt[p][call[p].page]
  IN  /\ pc[p] = "pin"
      /\ Frame_lock = Nil
      /\ IF e.kpage # Nil /\ InList(e.kpage)
         THEN /\ UNCHANGED Frame_list
              /\ Goto(p, call[p].after)
         ELSE /\ IF e.kpage = Nil THEN Go(p, "alloc", [call[p] EXCEPT !.ret = "pin"])
                 ELSE Goto(p, "panic")
              /\ UNCHANGED Frame_list
      /\ UNCHANGED <<spt, pte, Clock_hand, pool, ram, swapVars, file, lockVars, ev>>

\* page_pin (): frame_pin_resident () until it finds the page in memory, else
\* handle_mm_fault (), which asserts that it has no frame.
page_pin(p) ==
  LET e == spt[p][call[p].page]
  IN  /\ pc[p] = "pin"
      /\ Frame_lock = Nil
      /\ IF e.kpage # Nil /\ InList(e.kpage)
         THEN /\ SetPinned(At(e.kpage), TRUE)
              /\ Goto(p, call[p].after)
         ELSE /\ IF e.kpage = Nil THEN Go(p, "alloc", [call[p] EXCEPT !.ret = "pin"])
                 ELSE Goto(p, "panic")
              /\ UNCHANGED Frame_list
      /\ UNCHANGED <<spt, pte, Clock_hand, pool, ram, swapVars, file, lockVars, ev>>

-----------------------------------------------------------------------------
(* System calls that read or write a user buffer: "read" and "write".      *)

enter_syscall(p, u, name) ==
  /\ pc[p] = "user"
  /\ Go(p, "check", [call[p] EXCEPT !.page = u, !.after = name])
  /\ UNCHANGED <<spt, pte, frameVars, pool, ram, swapVars, file, lockVars, ev>>

\* check_address () before it pins the page.
check_address(p) ==
  LET u == call[p].page
      e == spt[p][u]
      fault(r) == Go(p, "alloc", [call[p] EXCEPT !.ret = r])
  IN  /\ pc[p] = "check"
      /\ \/ /\ e = NoPage /\ u \in GrowPage /\ fault("check")
            /\ spt' = [spt EXCEPT ![p][u] = Fresh("PAGE_ANON")]
         \/ /\ \/ e = NoPage /\ u \notin GrowPage
               \/ e = NoPage /\ "malloc" \in Failure
            /\ Goto(p, "kill") /\ UNCHANGED spt
         \/ e # NoPage /\ e.kpage = Nil /\ fault("pin") /\ UNCHANGED spt
         \/ e # NoPage /\ e.kpage # Nil /\ Goto(p, "pin") /\ UNCHANGED spt
      /\ UNCHANGED <<pte, frameVars, pool, ram, swapVars, file, lockVars, ev>>

\* The buffer is pinned: check_writable () for read, then the file system.
begin_copy(p) ==
  /\ pc[p] \in {"read", "write"}
  /\ IF pc[p] = "read" /\ call[p].page \in ReadOnly
     THEN Goto(p, "kill") /\ UNCHANGED Filesys_lock
     ELSE /\ Filesys_lock = Nil
          /\ Filesys_lock' = p
          /\ Goto(p, "copy")
  /\ UNCHANGED <<spt, pte, frameVars, pool, ram, swapVars, file, Frame_lock, ev>>

\* file_read () or file_write () moves the data through the user's address.
copy(p, v) ==
  LET u == call[p].page
  IN  /\ pc[p] = "copy"
      /\ IF pte[p][u].present
         THEN /\ Touch(p, u, call[p].after = "read")
              /\ ram' = IF call[p].after = "read" THEN [ram EXCEPT ![pte[p][u].kpage] = v] ELSE ram
              /\ Filesys_lock' = Nil
              /\ Goto(p, "unpin")
              /\ UNCHANGED <<spt, frameVars, pool, swapVars, file, Frame_lock, ev>>
         ELSE page_fault(p, u, call[p].after = "read", "copy")

frame_unpin_owner(p) ==
  /\ pc[p] = "unpin"
  /\ Frame_lock = Nil
  /\ SetPinned({i \in DOMAIN Frame_list : Frame_list[i].owner = p /\ Frame_list[i].page}, FALSE)
  /\ Goto(p, "user")
  /\ UNCHANGED <<spt, pte, Clock_hand, pool, ram, swapVars, file, lockVars, ev>>

-----------------------------------------------------------------------------
(* mmap, munmap and page_unmap ().                                         *)

mmap(p) ==
  /\ pc[p] = "user"
  /\ Filesys_lock = Nil
  /\ MmapPage # {} /\ MmapPage \cap Mapped(p) = {}
  /\ \E added \in SUBSET MmapPage :
       /\ added = MmapPage \/ "malloc" \in Failure
       /\ spt' = [spt EXCEPT ![p] = [u \in Page |-> IF u \in added THEN Fresh("PAGE_MMAP")
                                                     ELSE @[u]]]
       /\ IF added = MmapPage THEN Goto(p, "unpin")
          ELSE Go(p, "unmap", [call[p] EXCEPT !.todo = added])
  /\ UNCHANGED <<pte, frameVars, pool, ram, swapVars, file, lockVars, ev>>

munmap(p) ==
  /\ pc[p] = "user"
  /\ MmapPage \cap Mapped(p) # {}
  /\ Go(p, "unmap", [call[p] EXCEPT !.todo = MmapPage \cap Mapped(p)])
  /\ UNCHANGED <<spt, pte, frameVars, pool, ram, swapVars, file, lockVars, ev>>

\* The head of page_unmap ()'s loop, and the file_close () after it.
page_unmap(p) ==
  /\ pc[p] = "unmap"
  /\ \/ /\ call[p].todo = {}
        /\ Filesys_lock = Nil
        /\ Goto(p, IF call[p].exiting THEN "remove_owner" ELSE "unpin")
     \/ \E u \in call[p].todo :
          Go(p, "pin", [call[p] EXCEPT !.page = u, !.after = "unmap_dirty"])
  /\ UNCHANGED <<spt, pte, frameVars, pool, ram, swapVars, file, lockVars, ev>>

page_unmap_write(p) ==
  LET u == call[p].page
  IN  /\ pc[p] = "unmap_dirty"
      /\ IF pte[p][u].dirty
         THEN /\ Filesys_lock = Nil
              /\ file' = [file EXCEPT ![p][u] = ram[spt[p][u].kpage]]
         ELSE UNCHANGED file
      /\ Goto(p, "unmap_clear")
      /\ UNCHANGED <<spt, pte, frameVars, pool, ram, swapVars, lockVars, ev>>

page_unmap_clear(p) ==
  LET u == call[p].page
  IN  /\ pc[p] = "unmap_clear"
      /\ pte' = [pte EXCEPT ![p][u] = GonePte]
      /\ spt' = [spt EXCEPT ![p][u].kpage = Nil]
      /\ Go(p, "unmap_free", [call[p] EXCEPT !.kpage = spt[p][u].kpage])
      /\ UNCHANGED <<frameVars, pool, ram, swapVars, file, lockVars, ev>>

\* hash_delete () and swap_free ().
page_unmap_delete(p) ==
  /\ pc[p] = "discard"
  /\ swap_free({spt[p][call[p].page].slot})
  /\ spt' = [spt EXCEPT ![p][call[p].page] = NoPage]
  /\ Go(p, "unmap", [call[p] EXCEPT !.todo = @ \ {call[p].page}, !.page = Nil, !.after = Nil,
                                    !.ret = Nil])
  /\ UNCHANGED <<pte, frameVars, pool, ram, file, lockVars, ev>>

-----------------------------------------------------------------------------
(* load () and process_exit ().                                            *)

\* load () up to setup_stack ()'s frame_alloc (): Filesys_lock stays held.
load(p) ==
  /\ pc[p] = "none"
  /\ Filesys_lock = Nil
  /\ Filesys_lock' = p
  /\ \E added \in SUBSET (BinPage \cup {StackTop}) :
       LET all == added = BinPage \cup {StackTop}
       IN  /\ all \/ "malloc" \in Failure
           /\ spt' = [spt EXCEPT ![p] = [u \in Page |->
                        IF u \notin added THEN NoPage
                        ELSE Fresh(IF u = StackTop THEN "PAGE_ANON" ELSE "PAGE_BIN")]]
           /\ Go(p, IF all THEN "alloc" ELSE "load_failed",
                 [call[p] EXCEPT !.page = StackTop, !.ret = "setup_stack"])
  /\ UNCHANGED <<pte, frameVars, pool, ram, swapVars, file, Frame_lock, ev>>

\* construct_stack () writes through the user's address, then load () returns.
construct_stack(p, v) ==
  /\ pc[p] = "construct"
  /\ IF pte[p][StackTop].present
     THEN /\ Touch(p, StackTop, TRUE)
          /\ ram' = [ram EXCEPT ![pte[p][StackTop].kpage] = v]
          /\ Filesys_lock' = Nil
          /\ Goto(p, "user")
          /\ UNCHANGED <<spt, frameVars, pool, swapVars, file, Frame_lock, ev>>
     ELSE page_fault(p, StackTop, TRUE, "construct")

load_failed(p) ==
  /\ pc[p] = "load_failed"
  /\ Filesys_lock' = Nil
  /\ Goto(p, "exit")
  /\ UNCHANGED <<spt, pte, frameVars, pool, ram, swapVars, file, Frame_lock, ev>>

\* exit (), a killed process, and one whose page could not be brought in.
process_exit(p) ==
  /\ pc[p] \in {"user", "kill", "nomem", "exit"}
  /\ Filesys_lock = Nil
  /\ LET mappings == MmapPage \cap Mapped(p)
     IN  Go(p, IF mappings = {} THEN "remove_owner" ELSE "unmap",
            [Idle EXCEPT !.todo = mappings, !.exiting = TRUE])
  /\ UNCHANGED <<spt, pte, frameVars, pool, ram, swapVars, file, lockVars, ev>>

\* Changed form, for the mutation runs: the frames stay on Frame_list.
frame_remove_owner_not(p) ==
  /\ pc[p] = "remove_owner"
  /\ Frame_lock = Nil
  /\ Goto(p, "destroy")
  /\ UNCHANGED <<frameVars, spt, pte, pool, ram, swapVars, file, lockVars, ev>>

frame_remove_owner(p) ==
  /\ pc[p] = "remove_owner"
  /\ Frame_lock = Nil
  /\ Unlist({f.kpage : f \in {g \in Range(Frame_list) : g.owner = p}})
  /\ Goto(p, "destroy")
  /\ UNCHANGED <<spt, pte, pool, ram, swapVars, file, lockVars, ev>>

\* page_table_destroy (): page_destructor () of every struct page.
page_table_destroy(p) ==
  LET swapped == {u \in Page : spt[p][u].kpage = Nil /\ spt[p][u].slot # Nil}
  IN  /\ pc[p] = "destroy"
      /\ swap_free({spt[p][u].slot : u \in swapped})
      /\ spt' = [spt EXCEPT ![p] = [u \in Page |-> NoPage]]
      /\ Goto(p, "pagedir")
      /\ UNCHANGED <<pte, frameVars, pool, ram, file, lockVars, ev>>

pagedir_destroy(p) ==
  /\ pc[p] = "pagedir"
  /\ palloc_free({pte[p][u].kpage : u \in {w \in Page : pte[p][w].present}})
  /\ pte' = [pte EXCEPT ![p] = [u \in Page |-> NoPte]]
  /\ Goto(p, "none")
  /\ UNCHANGED <<spt, frameVars, swapVars, file, lockVars, ev>>

-----------------------------------------------------------------------------

Init ==
  /\ spt = [p \in Proc |-> [u \in Page |-> NoPage]]
  /\ pte = [p \in Proc |-> [u \in Page |-> NoPte]]
  /\ Frame_list = <<>> /\ Clock_hand = Nil
  /\ pool = Kpage /\ ram = [k \in Kpage |-> Nil]
  /\ Swap_bitmap = {} /\ swap_disk = [s \in Slot |-> Nil]
  /\ file = [p \in Proc |-> [u \in MmapPage |-> BinVal]]
  /\ Frame_lock = Nil /\ Filesys_lock = Nil
  /\ ev = NoEv
  /\ pc = [p \in Proc |-> "none"]
  /\ call = [p \in Proc |-> Idle]
  /\ store = Nil

Panicked == \E p \in Proc : pc[p] = "panic"

User(p) ==
  \/ \E u \in Page : user_read(p, u)
  \/ \E u \in Page, name \in {"read", "write"} : enter_syscall(p, u, name)
  \/ mmap(p) \/ munmap(p)

Kernel(p) ==
  \/ frame_alloc(p) \/ frame_evict(p) \/ frame_evict_scan(p) \/ frame_evict_unlink(p)
  \/ frame_evict_clear(p) \/ swap_out(p) \/ frame_evict_end(p) \/ frame_alloc_enlist(p)
  \/ fill(p) \/ swap_in(p) \/ swap_reset(p) \/ swap_clear(p) \/ map(p) \/ frame_install(p)
  \/ frame_free(p) \/ frame_free_page(p) \/ page_pin(p) \/ check_address(p) \/ begin_copy(p)
  \/ frame_unpin_owner(p) \/ page_unmap(p) \/ page_unmap_write(p) \/ page_unmap_clear(p)
  \/ page_unmap_delete(p) \/ load(p) \/ load_failed(p) \/ process_exit(p)
  \/ frame_remove_owner(p) \/ page_table_destroy(p) \/ pagedir_destroy(p)

Store(p, u, v) ==
  \/ user_write(p, u, v)
  \/ u = call[p].page /\ copy(p, v)
  \/ u = StackTop /\ construct_stack(p, v)

\* PANIC () stops the machine.
Next ==
  \/ /\ ~Panicked
     /\ \E p \in Proc :
          \/ (User(p) \/ Kernel(p)) /\ store' = Nil
          \/ \E u \in Page, v \in Val :
               Store(p, u, v) /\ store' = IF ram' = ram THEN Nil ELSE <<p, u, v>>
  \/ Panicked /\ UNCHANGED vars

Spec == Init /\ [][Next]_vars

-----------------------------------------------------------------------------
(* Properties.                                                             *)

TypeOK ==
  /\ spt \in [Proc -> [Page -> [type : {"none", "PAGE_BIN", "PAGE_MMAP", "PAGE_ANON"},
                                kpage : Kpage \cup {Nil}, slot : Slot \cup {Nil}]]]
  /\ pte \in [Proc -> [Page -> [table : BOOLEAN, kpage : Kpage \cup {Nil}, present : BOOLEAN,
                                accessed : BOOLEAN, dirty : BOOLEAN]]]
  /\ \A f \in Range(Frame_list) :
       f \in [kpage : Kpage, owner : Proc, upage : Page, page : BOOLEAN, pinned : BOOLEAN]
  /\ Clock_hand \in Kpage \cup {Nil}
  /\ pool \subseteq Kpage /\ ram \in [Kpage -> Val \cup {Nil}]
  /\ Swap_bitmap \subseteq Slot /\ swap_disk \in [Slot -> Val \cup {Nil}]
  /\ file \in [Proc -> [MmapPage -> Val]]
  /\ {Frame_lock, Filesys_lock} \subseteq Proc \cup {Nil}

\* Frames on the list, in a process's hands, in the evictor's, and mapped by a
\* process whose frames frame_remove_owner () took off the list.
Listed   == {f.kpage : f \in Range(Frame_list)}
InHand   == {call[p].kpage : p \in Proc} \ ({Nil} \cup Listed)
Evicting == {ev.kpage} \ ({Nil} \cup Listed)
Orphaned == {pte[p][u].kpage : <<p, u>> \in {x \in Proc \X Page :
               pte[x[1]][x[2]].present /\ pc[x[1]] \in {"destroy", "pagedir"}}}

\* Every page of the user pool is in exactly one place: free, on Frame_list, on
\* its way through frame_alloc () or frame_evict (), or waiting for
\* pagedir_destroy ().  No interleaving of faults, evictions, munmap and exit
\* leaks a frame or hands one out twice.
FramesAccounted ==
  LET places == <<pool, Listed, InHand, Evicting, Orphaned>>
  IN  /\ UNION Range(places) = Kpage
      /\ \A i, j \in 1 .. 5 : i # j => places[i] \cap places[j] = {}
      /\ Cardinality(Listed) = Len(Frame_list)
      /\ Clock_hand \in Listed \cup {Nil}

\* The pages that have a slot: one that was read back has it no more.
Holders(s) ==
  {x \in Proc \X Page : /\ spt[x[1]][x[2]].slot = s
                        /\ ~(pc[x[1]] = "swap_clear" /\ call[x[1]].page = x[2])}

\* A bit of Swap_bitmap is set exactly while one page, or the page being evicted,
\* has the slot: swap_in (), swap_free () and page_destructor () neither leak a
\* slot nor free one that is still needed.
SlotsAccounted ==
  \A s \in Slot :
    Cardinality(Holders(s)) + (IF ev.slot = s THEN 1 ELSE 0) = (IF s \in Swap_bitmap THEN 1 ELSE 0)

\* A present page table entry points at a frame that is this page's alone: the
\* frame listed for it, or the one its owner is still installing or taking down.
MappingsExclusive ==
  \A p \in Proc, u \in Page : pte[p][u].present =>
    /\ pte[p][u].kpage \notin pool
    /\ \A q \in Proc, w \in Page :
         pte[q][w].present /\ pte[q][w].kpage = pte[p][u].kpage => p = q /\ u = w
    /\ \A f \in Range(Frame_list) : f.kpage = pte[p][u].kpage => f.owner = p /\ f.upage = u

\* page_fault () and check_address () kill a process only for touching what it
\* does not have or may not write, never for a page that is on its way out:
\* frame_evict () must clear p->kpage before the page table entry.
KilledForCause ==
  \A p \in Proc : pc[p] = "kill" =>
    spt[p][call[p].page] = NoPage \/ call[p].page \in ReadOnly

\* While a system call copies with Filesys_lock held its buffer stays in memory,
\* because page_pin () keeps frame_evict () off it ("kernel must not fault while
\* it holds the lock", check_address ()).
PinnedWhileCopying == \A p \in Proc : pc[p] = "copy" => pte[p][call[p].page].present

\* The kernel stops only in frame_evict (), for want of a frame or of a swap slot, or
\* because construct_stack () met its stack page evicted and there was no memory for
\* a struct frame: never in the middle of a copy, for taking Filesys_lock twice or for
\* an assertion of page_pin ().
PanicsForWant ==
  \A p \in Proc : pc[p] = "panic" =>
    Frame_lock = p \/ (call[p].ret = "construct" /\ call[p].kpage = Nil)

\* "Page faults may cause kernel exceptions--but they shouldn't arrive here" (kill ()):
\* the kernel stops in frame_evict () and nowhere else.
PanicOnlyInEviction == \A p \in Proc : pc[p] = "panic" => Frame_lock = p

\* frame_evict ()'s comment: it panics if there is no frame it could choose.
PanicOnlyWithoutVictim ==
  \A p \in Proc : pc[p] = "panic" /\ Frame_lock = p /\ ev.kpage = Nil =>
    \A f \in Range(Frame_list) : f.pinned \/ ~f.page

\* page_unmap ()'s comment: written pages are written to the file and then the
\* mapping goes.  So no mapped page goes while swap has the only copy of it.
MappedDataKept ==
  \A p \in Proc : pc[p] = "discard" => spt[p][call[p].page].slot = Nil

-----------------------------------------------------------------------------
(* The address space a process sees.                                       *)

Unmapped == "unmapped"

\* Where the contents of a page are at each moment.
Content(p, u) ==
  LET e == spt[p][u]
  IN  CASE e = NoPage -> Unmapped
        [] pte[p][u].present -> ram[pte[p][u].kpage]
        [] ev.owner = p /\ ev.page = u -> ram[ev.kpage]
        [] pc[p] \in {"swap_clear", "map"} /\ call[p].page = u -> ram[call[p].kpage]
        [] pc[p] \in {"unmap_free", "unmap_page", "discard"} /\ call[p].page = u -> file[p][u]
        [] OTHER -> IF e.slot # Nil THEN swap_disk[e.slot] ELSE Origin(p, u, e.type)

Abstract == INSTANCE AddressSpace WITH mem <- [p \in Proc |-> [u \in Page |-> Content(p, u)]]

\* Virtual memory implements AddressSpace: faults, evictions and swapping are
\* invisible, only the owner's own writes change a page, and a mapped page is in
\* its file before it goes.
ImplementsAddressSpace == Abstract!Spec
=============================================================================

-------------------------------- MODULE MCVM --------------------------------
(*****************************************************************************)
(* Virtual memory in five small instances, checked in one run: part says     *)
(* which one a behaviour is of.                                              *)
(*****************************************************************************)
EXTENDS Naturals, TLC

CONSTANTS p0, p1, p2, data, stack, mmapped, grow, k0, k1, k2, v0, v1, Nil

VARIABLES part,     \* the component of this behaviour
          spt, pte, Frame_list, Clock_hand, pool, ram, Swap_bitmap, swap_disk,
          file, Frame_lock, Filesys_lock, ev, pc, call, store

Symmetry == Permutations({k1, k2}) \cup Permutations({p1, p2})

BinPage == {data}
StackTop == stack
Zero == v0

\* Two processes, two frames and a single swap slot, so that swap fills up, and malloc ()
\* may fail; one process with every kind of page in which every allocation may fail; one
\* with a mapped file and one that writes to its executable's data, whose stores are told
\* apart; and two processes that share one frame, in which they are too.  Those whose process or frame has no twin use p0 and k0, which the symmetry leaves
\* alone.

E == INSTANCE VM WITH Proc <- {p1, p2}, Page <- {data, stack}, ReadOnly <- {data},
  GrowPage <- {}, MmapPage <- {}, Val <- {v0}, BinVal <- v0, Kpage <- {k1, k2},
  SlotCnt <- 1, Failure <- {"malloc"}
F == INSTANCE VM WITH Proc <- {p0}, Page <- {data, stack, mmapped, grow},
  ReadOnly <- {data}, GrowPage <- {grow}, MmapPage <- {mmapped}, Val <- {v0},
  BinVal <- v0, Kpage <- {k1, k2}, SlotCnt <- 2,
  Failure <- {"malloc", "read", "pagetable"}
M == INSTANCE VM WITH Proc <- {p0}, Page <- {data, stack, mmapped},
  ReadOnly <- {data}, GrowPage <- {}, MmapPage <- {mmapped}, Val <- {v0, v1},
  BinVal <- v1, Kpage <- {k1, k2}, SlotCnt <- 2, Failure <- {}
B == INSTANCE VM WITH Proc <- {p0}, Page <- {data, stack, grow}, ReadOnly <- {},
  GrowPage <- {grow}, MmapPage <- {}, Val <- {v0, v1}, BinVal <- v1, Kpage <- {k0},
  SlotCnt <- 3, Failure <- {}
S == INSTANCE VM WITH Proc <- {p1, p2}, Page <- {data, stack}, ReadOnly <- {data},
  GrowPage <- {}, MmapPage <- {}, Val <- {v0, v1}, BinVal <- v1, Kpage <- {k0},
  SlotCnt <- 2, Failure <- {}

ASSUME /\ E!VMAssumption /\ F!VMAssumption /\ M!VMAssumption
       /\ B!VMAssumption /\ S!VMAssumption

vars == <<part, spt, pte, Frame_list, Clock_hand, pool, ram, Swap_bitmap,
          swap_disk, file, Frame_lock, Filesys_lock, ev, pc, call, store>>

Init ==
  \/ /\ part = "evict" /\ E!Init
  \/ /\ part = "fail" /\ F!Init
  \/ /\ part = "map" /\ M!Init
  \/ /\ part = "data" /\ B!Init
  \/ /\ part = "share" /\ S!Init

Next ==
  \/ /\ part = "evict" /\ E!Next
     /\ UNCHANGED <<part>>
  \/ /\ part = "fail" /\ F!Next
     /\ UNCHANGED <<part>>
  \/ /\ part = "map" /\ M!Next
     /\ UNCHANGED <<part>>
  \/ /\ part = "data" /\ B!Next
     /\ UNCHANGED <<part>>
  \/ /\ part = "share" /\ S!Next
     /\ UNCHANGED <<part>>

Spec == Init /\ [][Next]_vars

-----------------------------------------------------------------------------
(* Properties: those of VM in the instances in which the case can arise.   *)

\* A frame is in use exactly when one process's page table or supplemental page table
\* says so, or someone is about to (de)allocate it; a swap slot exactly when one
\* swapped-out page holds it; and no two pages are mapped to the same physical page, nor
\* any to a free one: frame_alloc (), frame_free (), swap_out (), swap_in (), page_unmap (),
\* process_exit () and the failure paths lose nothing and share nothing.
MemoryAccounted ==
  /\ part = "evict" => /\ E!TypeOK
                       /\ E!FramesAccounted /\ E!SlotsAccounted /\ E!MappingsExclusive
  /\ part = "fail" => F!FramesAccounted /\ F!SlotsAccounted /\ F!MappingsExclusive

\* page_fault () kills a process only for an access it is not allowed or for want of
\* memory, and the kernel panics only from within eviction or when construct_stack ()
\* cannot get its evicted page back for want of memory.
FailsForCause ==
  /\ part = "evict" => E!KilledForCause /\ E!PanicsForWant
  /\ part = "fail" => F!KilledForCause /\ F!PanicsForWant

\* The frame a system call copies to or from is pinned and stays its page's frame
\* (page_pin ()).
PinnedWhileCopying == part = "evict" => E!PinnedWhileCopying

\* Virtual memory implements AddressSpace: faults, evictions and swapping are
\* invisible, only the owner's own stores change a page, and a mapped page is in its
\* file before it goes.
ImplementsAddressSpace ==
  /\ part = "map" => M!Abstract!Init
  /\ part = "data" => B!Abstract!Init
  /\ part = "share" => S!Abstract!Init
  /\ [][/\ part = "map" => [M!Abstract!Next]_(M!Abstract!vars)
        /\ part = "data" => [B!Abstract!Next]_(B!Abstract!vars)
        /\ part = "share" => [S!Abstract!Next]_(S!Abstract!vars)]_vars
=============================================================================

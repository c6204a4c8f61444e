------------------------------- MODULE Segment -------------------------------
(***************************************************************************)
(* How parts of files are laid out in the address space: the PT_LOAD       *)
(* segments of an executable (load (), validate_segment () and             *)
(* load_segment () of userprog/process.c) and mappings (mmap () of         *)
(* userprog/syscall.c), page by page, with addresses of Width bits.        *)
(*                                                                         *)
(* A run takes one segment or one mapping.  spt records what               *)
(* page_add_file () and page_add_mmap () are given; a page that was there  *)
(* before has the file offset Old.                                         *)
(***************************************************************************)
EXTENDS Integers, FiniteSets

CONSTANTS
  Width, PGSIZE, PHYS_BASE,
  Vaddr, FileLength, Offset, Length,   \* values the fields take
  Taken,           \* pages that may be there before
  MayFail          \* whether malloc () may fail

SegmentAssumption ==
  /\ Width \in Nat /\ PGSIZE \in Nat \ {0} /\ PHYS_BASE < 2 ^ Width
  /\ Vaddr \cup Offset \cup Length \subseteq 0 .. 2 ^ Width - 1
  /\ MayFail \in BOOLEAN

VARIABLES
  kind,            \* "load" or "mmap"
  phdr,            \* p_offset, p_vaddr, p_filesz and p_memsz
  file_length,
  spt,             \* the pages recorded: [ofs, read_bytes] by address
  seg,             \* locals of load_segment () and mmap ()
  pc

vars == <<kind, phdr, file_length, spt, seg, pc>>
args == <<kind, phdr, file_length>>

Old == 2 ^ Width        \* no offset of a file
M(x) == x % 2 ^ Width   \* unsigned arithmetic wraps around

PageOf(a) == a - (a % PGSIZE)
ROUND_UP(x) == M(PageOf(M(x + PGSIZE - 1)))
is_user_vaddr(a) == a < PHYS_BASE

NoSeg == [upage |-> 0, ofs |-> 0, read_bytes |-> 0, zero_bytes |-> 0]

Goto(label) == pc' = label /\ UNCHANGED <<args, spt, seg>>

\* The tests of validate_segment ().
validate_segment ==
  /\ phdr.p_offset % PGSIZE = phdr.p_vaddr % PGSIZE
  /\ phdr.p_offset <= file_length
  /\ phdr.p_memsz >= phdr.p_filesz
  /\ phdr.p_memsz # 0
  /\ is_user_vaddr(phdr.p_vaddr)
  /\ is_user_vaddr(M(phdr.p_vaddr + phdr.p_memsz))
  /\ M(phdr.p_vaddr + phdr.p_memsz) >= phdr.p_vaddr
  /\ phdr.p_vaddr >= PGSIZE

\* load (): the arguments of load_segment (), and its assertions.
load ==
  LET page_offset == phdr.p_vaddr % PGSIZE
      read == IF phdr.p_filesz > 0 THEN M(page_offset + phdr.p_filesz) ELSE 0
      zero == M(ROUND_UP(page_offset + phdr.p_memsz) - read)
  IN  /\ pc = "start" /\ kind = "load"
      /\ IF ~validate_segment THEN Goto("failed")
         ELSE IF M(read + zero) % PGSIZE # 0 THEN Goto("panic")
         ELSE /\ seg' = [upage |-> PageOf(phdr.p_vaddr), ofs |-> PageOf(phdr.p_offset),
                         read_bytes |-> read, zero_bytes |-> zero]
              /\ pc' = "load_segment"
              /\ UNCHANGED <<args, spt>>

\* A turn of load_segment ()'s loop, with page_add_file ().
load_segment ==
  LET read == IF seg.read_bytes < PGSIZE THEN seg.read_bytes ELSE PGSIZE
  IN  /\ pc = "load_segment"
      /\ \/ seg.read_bytes = 0 /\ seg.zero_bytes = 0 /\ Goto("ok")
         \/ /\ seg.read_bytes # 0 \/ seg.zero_bytes # 0
            /\ MayFail \/ spt[seg.upage] # {}
            /\ Goto("failed")
         \/ /\ seg.read_bytes # 0 \/ seg.zero_bytes # 0
            /\ spt[seg.upage] = {}
            /\ spt' = [spt EXCEPT ![seg.upage] = {[ofs |-> seg.ofs, read_bytes |-> read]}]
            /\ seg' = [upage |-> M(seg.upage + PGSIZE), ofs |-> seg.ofs + read,
                       read_bytes |-> seg.read_bytes - read,
                       zero_bytes |-> M(seg.zero_bytes - (PGSIZE - read))]
            /\ UNCHANGED <<args, pc>>

\* mmap (): p_vaddr is addr, and the whole file is mapped.
mmap ==
  LET page_cnt == (file_length + PGSIZE - 1) \div PGSIZE
      upages == {M(phdr.p_vaddr + k * PGSIZE) : k \in 0 .. page_cnt - 1}
  IN  /\ pc = "start" /\ kind = "mmap"
      /\ IF \/ phdr.p_vaddr = 0 \/ phdr.p_vaddr % PGSIZE # 0 \/ file_length = 0
            \/ \E u \in upages : ~is_user_vaddr(u) \/ spt[u] # {}
         THEN Goto("failed")
         ELSE /\ seg' = [NoSeg EXCEPT !.upage = phdr.p_vaddr, !.read_bytes = file_length]
              /\ pc' = "mmap"
              /\ UNCHANGED <<args, spt>>

\* Changed form, for the mutation runs: the pages added so far stay.
mmap_page_left ==
  LET read == IF seg.read_bytes < PGSIZE THEN seg.read_bytes ELSE PGSIZE
  IN  /\ pc = "mmap"
      /\ \/ seg.read_bytes = 0 /\ Goto("ok")
         \/ /\ seg.read_bytes # 0 /\ (MayFail \/ spt[seg.upage] # {})
            /\ Goto("failed")
         \/ /\ seg.read_bytes # 0 /\ spt[seg.upage] = {}
            /\ spt' = [spt EXCEPT ![seg.upage] = {[ofs |-> seg.ofs, read_bytes |-> read]}]
            /\ seg' = [seg EXCEPT !.upage = M(@ + PGSIZE), !.ofs = @ + PGSIZE, !.read_bytes = @ - read]
            /\ UNCHANGED <<args, pc>>

\* A turn of its second loop, with page_add_mmap (), which refuses a page that is there;
\* page_unmap () removes the pages added so far when one fails.
mmap_page ==
  LET read == IF seg.read_bytes < PGSIZE THEN seg.read_bytes ELSE PGSIZE
  IN  /\ pc = "mmap"
      /\ \/ seg.read_bytes = 0 /\ Goto("ok")
         \/ /\ seg.read_bytes # 0 /\ (MayFail \/ spt[seg.upage] # {})
            /\ spt' = [u \in DOMAIN spt |->
                         IF phdr.p_vaddr <= u /\ u < seg.upage THEN {} ELSE spt[u]]
            /\ pc' = "failed"
            /\ UNCHANGED <<args, seg>>
         \/ /\ seg.read_bytes # 0 /\ spt[seg.upage] = {}
            /\ spt' = [spt EXCEPT ![seg.upage] = {[ofs |-> seg.ofs, read_bytes |-> read]}]
            /\ seg' = [seg EXCEPT !.upage = M(@ + PGSIZE), !.ofs = @ + PGSIZE, !.read_bytes = @ - read]
            /\ UNCHANGED <<args, pc>>

Existing(a) == IF a \in Taken THEN {{}, {[ofs |-> Old, read_bytes |-> 0]}} ELSE {{}}

Init ==
  /\ kind \in {"load", "mmap"}
  /\ phdr \in [p_offset : Offset, p_vaddr : Vaddr, p_filesz : Length, p_memsz : Length]
  /\ kind = "mmap" => phdr.p_offset = 0 /\ phdr.p_filesz = 0 /\ phdr.p_memsz = 0
  /\ file_length \in FileLength
  /\ spt \in {s \in [{a \in 0 .. 2 ^ Width - 1 : a % PGSIZE = 0} ->
                       {{}, {[ofs |-> Old, read_bytes |-> 0]}}] :
                \A a \in DOMAIN s : s[a] \in Existing(a)}
  /\ seg = NoSeg /\ pc = "start"

Next ==
  \/ load \/ load_segment \/ mmap \/ mmap_page
  \/ pc \in {"ok", "failed", "panic"} /\ UNCHANGED vars

Spec == Init /\ [][Next]_vars

-----------------------------------------------------------------------------
(* Properties.                                                             *)

\* Type invariant.
TypeOK ==
  /\ \A a \in DOMAIN spt : \A e \in spt[a] : e.read_bytes \in 0 .. PGSIZE
  /\ seg.upage \in DOMAIN spt /\ seg.read_bytes \in Nat /\ seg.zero_bytes \in Nat

\* What address a will hold: the offset in the file of its byte, or -1 for a zero.
ByteAt(a) ==
  LET e == CHOOSE x \in spt[PageOf(a)] : TRUE
  IN  IF a % PGSIZE < e.read_bytes THEN e.ofs + (a % PGSIZE) ELSE -1

\* Whether handle_mm_fault () can fill a page: the read it checks is not short.
Fillable(e) == e.read_bytes = 0 \/ e.ofs + e.read_bytes <= file_length

New == {a \in DOMAIN spt : \E e \in spt[a] : e.ofs # Old}

\* A segment that load () accepted is recorded byte for byte: p_filesz bytes of the
\* file at p_vaddr, zeros up to p_memsz, in user pages from page 1 on, for every
\* value of the header's fields, those whose sums wrap around included.  A fault can
\* fill all of its pages if the file has the p_filesz bytes; if it ends before them,
\* load () succeeds all the same and the page that cannot be filled kills the process.
SegmentInPlace ==
  pc = "ok" /\ kind = "load" =>
    /\ \A k \in 0 .. phdr.p_memsz - 1 :
         /\ spt[PageOf(phdr.p_vaddr + k)] # {}
         /\ ByteAt(phdr.p_vaddr + k) = IF k < phdr.p_filesz THEN phdr.p_offset + k ELSE -1
    /\ \A a \in New : 0 < a /\ a < PHYS_BASE
    /\ \A a \in New : \A e \in spt[a] :
         phdr.p_offset + phdr.p_filesz <= file_length => Fillable(e)

\* "Return true if successful, false if a memory allocation error or disk read error
\* occurs" (load_segment ()): the READ_BYTES bytes of a segment that was loaded can be
\* read from the file.
SegmentReadable ==
  pc = "ok" /\ kind = "load" => \A a \in New : \A e \in spt[a] : Fillable(e)

\* Whatever the header says, load_segment ()'s assertion on the sizes holds and its
\* loop ends: the counts of bytes do not run past zero.
SizesWellFormed ==
  /\ pc # "panic"
  /\ pc = "load_segment" => (seg.read_bytes + seg.zero_bytes) % PGSIZE = 0
  /\ pc = "load_segment" => seg.upage + seg.read_bytes + seg.zero_bytes <= PHYS_BASE

\* A mapping shows every byte of the file once, in pages a fault can fill, and a call
\* that fails leaves no page of it behind.
MappingExact ==
  kind = "mmap" =>
    /\ pc = "ok" => /\ \A k \in 0 .. file_length - 1 : ByteAt(phdr.p_vaddr + k) = k
                    /\ \A a \in New : is_user_vaddr(a) /\ a # 0
                    /\ \A a \in New : \A e \in spt[a] : Fillable(e)
    /\ pc = "failed" => New = {}

\* Pages that were there before keep what they hold.
OthersKept == [][\A a \in DOMAIN spt : spt[a] # {} /\ a \notin New => spt'[a] = spt[a]]_vars
=============================================================================

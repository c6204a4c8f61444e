----------------------------- MODULE Arguments ------------------------------
(***************************************************************************)
(* Argument passing: from the command line given to process_execute () to  *)
(* the stack on which the program starts (process_execute (), load () and  *)
(* construct_stack () of userprog/process.c; strtok_r () and strlcpy () of *)
(* lib/string.c).  Memory is an array of bytes.  A buffer keeps what was   *)
(* in it behind the terminator, and strtok_r () writes into it.            *)
(***************************************************************************)
EXTENDS Integers, Sequences, FiniteSets, FiniteSetsExt, SequencesExt

CONSTANTS Letter,        \* characters other than the space, as bytes
          MaxLine,       \* bound: the longest command line
          MAX_CMD_LEN, MAX_ARGC,
          NAME_SIZE,     \* sizeof (t->name)
          PGSIZE,        \* PHYS_BASE too: the page of the stack starts at 0
          Files,         \* the names of the files of the disk
          NULL

SizesAssumption ==
  /\ {MAX_CMD_LEN, MAX_ARGC, NAME_SIZE} \subseteq Nat \ {0}
  /\ PGSIZE \in 64 .. 256 /\ PGSIZE % 4 = 0
  /\ Letter \subseteq 33 .. 126

SP == 32
NUL == 0
JUNK == 255              \* what a buffer holds before it is written
PHYS_BASE == PGSIZE
Line == UNION {[1 .. n -> Letter \cup {SP}] : n \in 0 .. MaxLine}

VARIABLES cmdline,       \* what process_execute () was given
          fn_copy,       \* its copy for load ()
          name,          \* the name of the thread
          Prog_name,     \* the file load () opens
          pc,
          Cmd_copy, save_ptr, Argv, argc,   \* locals of construct_stack ()
          i,
          mem, esp       \* the page of the stack, and the stack pointer

vars == <<cmdline, fn_copy, name, Prog_name, pc, Cmd_copy, save_ptr, Argv, argc, i,
          mem, esp>>

-----------------------------------------------------------------------------
\* The string that starts at s in an array of bytes.
CString(a, s) ==
  LET end == Min({k \in DOMAIN a : k >= s /\ a[k] = NUL})
  IN [k \in 1 .. end - s |-> a[s + k - 1]]

\* strlcpy () of a string into a new buffer of the given size.
strlcpy(src, size) ==
  LET dst_len == Min({size - 1, Len(src)})
  IN [k \in 0 .. size - 1 |-> IF k < dst_len THEN src[k + 1]
                              ELSE IF k = dst_len THEN NUL ELSE JUNK]

\* Changed form, for the mutation runs: spaces before a token are not skipped.
strtok_r_no_skip(buf, s) ==
  LET end == Min({k \in DOMAIN buf : k >= s /\ buf[k] \in {SP, NUL}})
  IN IF buf[s] = NUL THEN [token |-> NULL, save |-> s, buf |-> buf]
     ELSE IF buf[end] = NUL THEN [token |-> s, save |-> end, buf |-> buf]
     ELSE [token |-> s, save |-> end + 1, buf |-> [buf EXCEPT ![end] = NUL]]

\* strtok_r () with the delimiters " " from position s of buf.
strtok_r(buf, s) ==
  LET token == Min({k \in DOMAIN buf : k >= s /\ buf[k] # SP})
      end == Min({k \in DOMAIN buf : k >= token /\ buf[k] \in {SP, NUL}})
  IN IF buf[token] = NUL THEN [token |-> NULL, save |-> token, buf |-> buf]
     ELSE IF buf[end] = NUL THEN [token |-> token, save |-> end, buf |-> buf]
     ELSE [token |-> token, save |-> end + 1, buf |-> [buf EXCEPT ![end] = NUL]]

\* The first token, cut off in a buffer of its own.
FirstToken(line) == CString(strtok_r(strlcpy(line, MAX_CMD_LEN), 0).buf, 0)

\* Stores of bytes from address a on, and of a 32-bit word.
Store(m, a, bytes) == [k \in DOMAIN m |->
  IF k - a \in 0 .. Len(bytes) - 1 THEN bytes[k - a + 1] ELSE m[k]]
WordBytes(v) == <<v % 256, (v \div 256) % 256, 0, 0>>
StoreWord(m, a, v) == Store(m, a, WordBytes(v))
LoadWord(m, a) == m[a] + 256 * m[a + 1]

-----------------------------------------------------------------------------
\* process_execute () up to thread_create ().
process_execute ==
  /\ pc = "execute"
  /\ fn_copy' = CString(strlcpy(cmdline, PGSIZE), 0)
  /\ name' = CString(strlcpy(FirstToken(cmdline), NAME_SIZE), 0)
  /\ pc' = "load"
  /\ UNCHANGED <<cmdline, Prog_name, Cmd_copy, save_ptr, Argv, argc, i, mem, esp>>

\* load (): the file is opened by the first word; then the stack page, zeroed
\* by setup_stack ().
load ==
  /\ pc = "load"
  /\ Prog_name' = FirstToken(fn_copy)
  /\ IF Prog_name' \in Files
     THEN /\ pc' = "tokenize"
          /\ esp' = PHYS_BASE
          /\ mem' = [k \in 0 .. PGSIZE - 1 |-> 0]
          /\ Cmd_copy' = strlcpy(fn_copy, MAX_CMD_LEN)
          /\ save_ptr' = 0
     ELSE /\ pc' = "failed"
          /\ UNCHANGED <<esp, mem, Cmd_copy, save_ptr>>
  /\ UNCHANGED <<cmdline, fn_copy, name, Argv, argc, i>>

\* construct_stack (), 1: a turn of the loop over the tokens.  A token that
\* finds Argv full is dropped.
Tokenize ==
  LET t == strtok_r(Cmd_copy, save_ptr)
  IN /\ pc = "tokenize"
     /\ Cmd_copy' = t.buf
     /\ save_ptr' = t.save
     /\ IF t.token # NULL /\ argc < MAX_ARGC
        THEN /\ Argv' = Append(Argv, t.token)
             /\ argc' = argc + 1
             /\ UNCHANGED <<pc, i>>
        ELSE /\ i' = argc
             /\ pc' = "strings"
             /\ UNCHANGED <<Argv, argc>>
     /\ UNCHANGED <<cmdline, fn_copy, name, Prog_name, mem, esp>>

\* 2: the strings, last first, with their terminators.
PushString ==
  /\ pc = "strings"
  /\ IF i > 0
     THEN LET s == Append(CString(Cmd_copy, Argv[i]), NUL)
          IN /\ esp' = esp - Len(s)
             /\ mem' = Store(mem, esp', s)
             /\ Argv' = [Argv EXCEPT ![i] = esp']
             /\ i' = i - 1
             /\ UNCHANGED pc
     ELSE /\ pc' = "align"
          /\ UNCHANGED <<esp, mem, Argv, i>>
  /\ UNCHANGED <<cmdline, fn_copy, name, Prog_name, Cmd_copy, save_ptr, argc>>

\* 3 and 4: bytes of padding, then argv[argc].
Align ==
  /\ pc = "align"
  /\ LET pad == esp % 4
     IN /\ esp' = esp - pad - 4
        /\ mem' = StoreWord(Store(mem, esp - pad, [k \in 1 .. pad |-> 0]), esp', 0)
  /\ i' = argc
  /\ pc' = "argv"
  /\ UNCHANGED <<cmdline, fn_copy, name, Prog_name, Cmd_copy, save_ptr, Argv, argc>>

\* 5: the addresses of the strings, last first.
PushArgv ==
  /\ pc = "argv"
  /\ IF i > 0
     THEN /\ esp' = esp - 4
          /\ mem' = StoreWord(mem, esp', Argv[i])
          /\ i' = i - 1
          /\ UNCHANGED pc
     ELSE /\ pc' = "frame"
          /\ UNCHANGED <<esp, mem, i>>
  /\ UNCHANGED <<cmdline, fn_copy, name, Prog_name, Cmd_copy, save_ptr, Argv, argc>>

\* 6 to 8: argv, argc and the return address.
PushFrame ==
  /\ pc = "frame"
  /\ esp' = esp - 12
  /\ mem' = StoreWord(StoreWord(StoreWord(mem, esp - 4, esp), esp - 8, argc), esp', 0)
  /\ pc' = "started"
  /\ UNCHANGED <<cmdline, fn_copy, name, Prog_name, Cmd_copy, save_ptr, Argv, argc, i>>

\* The program runs, or process_execute () returns TID_ERROR.
Over == pc \in {"started", "failed"} /\ UNCHANGED vars

Init ==
  /\ cmdline \in Line
  /\ pc = "execute"
  /\ fn_copy = <<>> /\ name = <<>> /\ Prog_name = <<>>
  /\ Cmd_copy = [k \in 0 .. MAX_CMD_LEN - 1 |-> JUNK]
  /\ save_ptr = 0 /\ Argv = <<>> /\ argc = 0 /\ i = 0
  /\ mem = [k \in 0 .. PGSIZE - 1 |-> 0] /\ esp = 0

Next == \/ process_execute \/ load \/ Tokenize \/ PushString \/ Align \/ PushArgv
        \/ PushFrame \/ Over

Spec == Init /\ [][Next]_vars

-----------------------------------------------------------------------------
\* The pointers stay in their buffers, and esp in the page of the stack.
TypeOK ==
  /\ DOMAIN Cmd_copy = 0 .. MAX_CMD_LEN - 1 /\ save_ptr \in DOMAIN Cmd_copy
  /\ argc \in 0 .. MAX_ARGC /\ Len(Argv) = argc /\ i \in 0 .. argc
  /\ \A k \in 1 .. argc : Argv[k] \in 0 .. PHYS_BASE - 1
  /\ mem \in [0 .. PGSIZE - 1 -> 0 .. 255] /\ esp \in 0 .. PHYS_BASE

\* The words of a line: the longest runs of characters without a space.
Words(line) ==
  LET starts == {k \in DOMAIN line : line[k] # SP /\ (k = 1 \/ line[k - 1] = SP)}
      end(k) == Min({j \in k .. Len(line) : j = Len(line) \/ line[j + 1] = SP})
  IN [n \in DOMAIN SetToSortSeq(starts, <) |->
        LET k == SetToSortSeq(starts, <)[n] IN SubSeq(line, k, end(k))]

\* What the program is to be given: the words of as much of the line as
\* Cmd_copy holds.
Given == Words(SubSeq(cmdline, 1, Min({MAX_CMD_LEN - 1, Len(cmdline)})))

\* The program finds, through esp alone, argc, the null pointer behind argv and
\* every word: neither the padding, nor the pointers pushed below them, nor the
\* bound on argc lost or overwrote one ("128 bytes of one-letter arguments are no
\* more than 64 tokens").
ArgumentsArrive ==
  pc = "started" =>
    LET base == LoadWord(mem, esp + 8)
    IN /\ LoadWord(mem, esp + 4) = Len(Given)
       /\ LoadWord(mem, base + 4 * Len(Given)) = 0
       /\ \A n \in DOMAIN Given : CString(mem, LoadWord(mem, base + 4 * (n - 1))) = Given[n]

\* The words construct_stack () stores are aligned, from the null pointer down.
WordsAligned == pc \in {"argv", "frame", "started"} => esp % 4 = 0

\* The program that runs is the one argv[0] names, and the thread has its name
\* up to the length of t->name, although each of the three splits the line anew.
NamesAgree ==
  pc = "started" =>
    /\ Len(Given) > 0 /\ Prog_name = Given[1]
    /\ name = SubSeq(Given[1], 1, Min({NAME_SIZE - 1, Len(Given[1])}))

\* "Only the first token remains in Prog_name" (userprog/process.c): the file
\* that load () opens is named by the first word of the line.
FirstWordOpened ==
  pc \in {"tokenize", "failed"} /\ Given # <<>> => Prog_name = Given[1]
=============================================================================

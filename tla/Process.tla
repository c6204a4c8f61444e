------------------------------- MODULE Process -------------------------------
(***************************************************************************)
(* The life of user processes: process_execute (), start_process (),       *)
(* process_wait () and process_exit () of userprog/process.c, with         *)
(* thread_create () and thread_exit () as the USERPROG kernel builds them. *)
(*                                                                         *)
(* A process is its struct thread.  Its semaphores are counters whose down *)
(* waits for a positive value (Synch models how they are implemented), and *)
(* the steps of different processes interleave wherever one touches what   *)
(* another may have changed.  A struct thread is a page that               *)
(* thread_schedule_tail () frees: reading a field of a freed one gives any *)
(* value, and following or setting a list pointer in one halts the model.  *)
(***************************************************************************)
EXTENDS KernelList

CONSTANTS
  Proc,            \* bound: the threads that are ever created
  initial_thread,  \* the kernel thread that runs main ()
  NoProc,
  LoadResult,      \* what may become of load (), see start_process
  ExitStatus       \* arguments of the exit system call

\* load () succeeds; fails after it made the page directory, as for a missing
\* file; or fails before that, as does the allocation of Fd_table.
LoadResults == {"ok", "bad_file", "no_memory"}

ProcessAssumption ==
  /\ initial_thread \in Proc
  /\ NoProc \notin Proc
  /\ LoadResult \subseteq LoadResults
  /\ ExitStatus \subseteq Int

VARIABLES
  allocated,       \* the structs thread that exist
  pc,              \* what the process does next
  Child_list,
  Child,           \* the local variable Child of the call a process is in
  Load_sema, Exit_sema, Destroy_sema,
  is_loaded,
  exit_status,
  has_pagedir,     \* t->pagedir != NULL
  has_files,       \* it has a Fd_table or an Exec_file
  is_user_process, \* the local variable of process_exit ()
  exec_result,     \* by child: what process_execute () returned for it
  wait_result      \* by child: what process_wait () calls returned for it

semaVars == <<Load_sema, Exit_sema, Destroy_sema>>
ownVars  == <<is_loaded, exit_status, has_pagedir, has_files, is_user_process>>
resultVars == <<exec_result, wait_result>>
vars == <<allocated, pc, Child_list, Child, semaVars, ownVars, resultVars>>

Status == ExitStatus \cup {-1}

-----------------------------------------------------------------------------

At(p, label) == pc[p] = label

Goto(p, label) == pc' = [pc EXCEPT ![p] = label]

\* A walk along a Child_list: it stops dead at a freed struct thread.
Walk(p, children, label) ==
  Goto(p, IF children \subseteq allocated THEN label ELSE "halt")

\* What reading a field of c gives, or any of the values it could have.
Read(c, field, values) == IF c \in allocated THEN {field[c]} ELSE values

sema_up(sema, c) == [sema EXCEPT ![c] = @ + 1]
sema_down(sema, c) == [sema EXCEPT ![c] = @ - 1]

-----------------------------------------------------------------------------
(* exec                                                                    *)

\* process_execute () up to thread_create (), which puts the new thread on the
\* Child_list of its creator and makes it ready to run ...
process_execute(p, c) ==
  /\ At(p, "user")
  /\ At(c, "unborn")
  /\ allocated' = allocated \cup {c}
  /\ Child_list' = [Child_list EXCEPT ![p] = Append(@, c)]
  /\ Child' = [Child EXCEPT ![p] = c]
  /\ pc' = [pc EXCEPT ![p] = IF Child_list[p] # <<>>
                                /\ Last(Child_list[p]) \notin allocated
                             THEN "halt" ELSE "find",
                      ![c] = "start"]
  /\ UNCHANGED <<semaVars, ownVars, resultVars>>

\* The children get_child_process () looks at until it has found c.
LookedAt(p, c) ==
  LET list == Child_list[p]
  IN  {list[i] : i \in {j \in 1 .. Len(list) :
                          \A k \in 1 .. j - 1 : list[k] # c}}

\* ... looks the new thread up ...
FindLoading(p) ==
  /\ At(p, "find")
  /\ Walk(p, LookedAt(p, Child[p]), "await_load")
  /\ UNCHANGED <<allocated, Child_list, Child, semaVars, ownVars, resultVars>>

\* Changed form, for the mutation runs: process_execute () does not wait.
AwaitNoLoad(p) ==
  /\ At(p, "await_load")
  /\ Goto(p, "loaded")
  /\ UNCHANGED <<allocated, Child_list, Child, semaVars, ownVars, resultVars>>

\* ... waits for its Load_sema ...
AwaitLoad(p) ==
  /\ At(p, "await_load")
  /\ Load_sema[Child[p]] > 0 \/ Child[p] \notin allocated
  /\ Load_sema' = IF Child[p] \in allocated
                  THEN sema_down(Load_sema, Child[p]) ELSE Load_sema
  /\ Goto(p, "loaded")
  /\ UNCHANGED <<allocated, Child_list, Child, Exit_sema, Destroy_sema,
                 ownVars, resultVars>>

\* ... and returns TID_ERROR or the tid.
ExecReturn(p) ==
  /\ At(p, "loaded")
  /\ \E loaded \in Read(Child[p], is_loaded, BOOLEAN) :
       exec_result' = [exec_result EXCEPT ![Child[p]] =
                         IF loaded THEN "tid" ELSE "TID_ERROR"]
  /\ Child' = [Child EXCEPT ![p] = NoProc]
  /\ Goto(p, "user")
  /\ UNCHANGED <<allocated, Child_list, semaVars, ownVars, wait_result>>

\* start_process (): exit_status is -1 unless exit () sets it.
start_process(p) ==
  /\ At(p, "start")
  /\ exit_status' = [exit_status EXCEPT ![p] = -1]
  /\ \E load \in LoadResult :
       /\ is_loaded' = [is_loaded EXCEPT ![p] = load = "ok"]
       /\ has_pagedir' = [has_pagedir EXCEPT ![p] = load # "no_memory"]
       /\ \E files \in IF load = "no_memory" THEN BOOLEAN ELSE {TRUE} :
            has_files' = [has_files EXCEPT ![p] = files]
  /\ Goto(p, "report")
  /\ UNCHANGED <<allocated, Child_list, Child, semaVars, is_user_process,
                 resultVars>>

\* The report to process_execute (); after a failure the thread exits.
ReportLoad(p) ==
  /\ At(p, "report")
  /\ Load_sema' = sema_up(Load_sema, p)
  /\ Goto(p, IF is_loaded[p] THEN "user" ELSE "exit")
  /\ UNCHANGED <<allocated, Child_list, Child, Exit_sema, Destroy_sema,
                 ownVars, resultVars>>

-----------------------------------------------------------------------------
(* wait                                                                    *)

\* process_wait (c): -1 at once when c is not on the list ...
process_wait(p, c) ==
  /\ At(p, "user")
  /\ ~At(c, "unborn")
  /\ IF c \in ToSet(Child_list[p])
     THEN /\ Walk(p, LookedAt(p, c), "await_exit")
          /\ Child' = [Child EXCEPT ![p] = c]
     ELSE /\ Walk(p, ToSet(Child_list[p]), "user")
          /\ UNCHANGED Child
  /\ UNCHANGED <<allocated, Child_list, semaVars, ownVars, resultVars>>

\* ... or else waits for its Exit_sema ...
AwaitExit(p) ==
  /\ At(p, "await_exit")
  /\ Exit_sema[Child[p]] > 0
  /\ Exit_sema' = sema_down(Exit_sema, Child[p])
  /\ Goto(p, "reap")
  /\ UNCHANGED <<allocated, Child_list, Child, Load_sema, Destroy_sema,
                 ownVars, resultVars>>

\* The elements list_remove () of c reads and sets.
Around(list, c) ==
  {list[i] : i \in {j \in 1 .. Len(list) :
                      \E k \in j - 1 .. j + 1 : k \in 1 .. Len(list) /\ list[k] = c}}

\* ... reads exit_status and takes the child off the list ...
Reap(p) ==
  /\ At(p, "reap")
  /\ \E status \in Read(Child[p], exit_status, Status) :
       wait_result' = [wait_result EXCEPT ![Child[p]] = Append(@, status)]
  /\ Walk(p, Around(Child_list[p], Child[p]), "let_go")
  /\ Child_list' = [Child_list EXCEPT ![p] = RemoveAt(@, Place(@, Child[p]))]
  /\ UNCHANGED <<allocated, Child, semaVars, ownVars, exec_result>>

\* ... and lets it go.
LetGo(p) ==
  /\ At(p, "let_go")
  /\ Destroy_sema' = sema_up(Destroy_sema, Child[p])
  /\ Child' = [Child EXCEPT ![p] = NoProc]
  /\ Goto(p, "user")
  /\ UNCHANGED <<allocated, Child_list, Load_sema, Exit_sema, ownVars,
                 resultVars>>

-----------------------------------------------------------------------------
(* exit                                                                    *)

\* exit (status), or kill () of a process that faulted.
exit(p) ==
  /\ At(p, "user")
  /\ \E status \in ExitStatus \cup {exit_status[p]} :
       exit_status' = [exit_status EXCEPT ![p] = status]
  /\ Goto(p, "exit")
  /\ UNCHANGED <<allocated, Child_list, Child, semaVars, is_loaded,
                 has_pagedir, has_files, is_user_process, resultVars>>

\* The child after c on a list, as list_next () finds it.
NextChild(list, c) ==
  IF Place(list, c) < Len(list) THEN list[Place(list, c) + 1] ELSE NoProc

\* process_exit (): starts with its first child ...
process_exit(p) ==
  /\ At(p, "exit")
  /\ is_user_process' = [is_user_process EXCEPT ![p] = has_pagedir[p]]
  /\ Child' = [Child EXCEPT ![p] =
                 IF Child_list[p] = <<>> THEN NoProc ELSE Head(Child_list[p])]
  /\ Goto(p, "release")
  /\ UNCHANGED <<allocated, Child_list, semaVars, is_loaded, exit_status,
                 has_pagedir, has_files, resultVars>>

\* Changed form, for the mutation runs: the children are not released.
ReleaseNoChild(p) ==
  /\ At(p, "release")
  /\ Child[p] # NoProc
  /\ Walk(p, {Child[p]}, "next_child")
  /\ UNCHANGED <<allocated, Child_list, Child, semaVars, ownVars, resultVars>>

\* ... ups its Destroy_sema ...
ReleaseChild(p) ==
  /\ At(p, "release")
  /\ Child[p] # NoProc
  /\ Destroy_sema' = sema_up(Destroy_sema, Child[p])
  /\ Walk(p, {Child[p]}, "next_child")
  /\ UNCHANGED <<allocated, Child_list, Child, Load_sema, Exit_sema, ownVars,
                 resultVars>>

\* ... reads in it which one is next ...
ListNext(p) ==
  /\ At(p, "next_child")
  /\ Walk(p, {Child[p]}, "release")
  /\ Child' = [Child EXCEPT ![p] = NextChild(Child_list[p], @)]
  /\ UNCHANGED <<allocated, Child_list, semaVars, ownVars, resultVars>>

\* Changed form, for the mutation runs: pagedir, which is NULL by now, tells whether it is a user process.
FreeThenTestPagedir(p) ==
  /\ At(p, "release")
  /\ Child[p] = NoProc
  /\ has_files' = [has_files EXCEPT ![p] = FALSE]
  /\ has_pagedir' = [has_pagedir EXCEPT ![p] = FALSE]
  /\ Goto(p, IF has_pagedir'[p] THEN "notify" ELSE "dying")
  /\ UNCHANGED <<allocated, Child_list, Child, semaVars, is_loaded,
                 exit_status, is_user_process, resultVars>>

\* ... closes the open files and the executable, destroys the page directory,
\* after it printed the exit message ...
FreeResources(p) ==
  /\ At(p, "release")
  /\ Child[p] = NoProc
  /\ has_files' = [has_files EXCEPT ![p] = FALSE]
  /\ has_pagedir' = [has_pagedir EXCEPT ![p] = FALSE]
  /\ Goto(p, IF is_user_process[p] THEN "notify" ELSE "dying")
  /\ UNCHANGED <<allocated, Child_list, Child, semaVars, is_loaded,
                 exit_status, is_user_process, resultVars>>

\* ... and, unless it is a kernel thread, tells the parent ...
NotifyParent(p) ==
  /\ At(p, "notify")
  /\ Exit_sema' = sema_up(Exit_sema, p)
  /\ Goto(p, "await_reaping")
  /\ UNCHANGED <<allocated, Child_list, Child, Load_sema, Destroy_sema,
                 ownVars, resultVars>>

\* ... and waits until the parent has no more use for it.
AwaitReaping(p) ==
  /\ At(p, "await_reaping")
  /\ Destroy_sema[p] > 0
  /\ Destroy_sema' = sema_down(Destroy_sema, p)
  /\ Goto(p, "dying")
  /\ UNCHANGED <<allocated, Child_list, Child, Load_sema, Exit_sema, ownVars,
                 resultVars>>

\* The end of thread_exit (), and thread_schedule_tail () of its successor.
thread_exit(p) ==
  /\ At(p, "dying")
  /\ allocated' = IF p = initial_thread THEN allocated ELSE allocated \ {p}
  /\ Goto(p, "dead")
  /\ UNCHANGED <<Child_list, Child, semaVars, ownVars, resultVars>>

-----------------------------------------------------------------------------

\* main () before it runs its first program.
Init ==
  /\ allocated = {initial_thread}
  /\ pc = [p \in Proc |-> IF p = initial_thread THEN "user" ELSE "unborn"]
  /\ Child_list = [p \in Proc |-> <<>>]
  /\ Child = [p \in Proc |-> NoProc]
  /\ Load_sema = [p \in Proc |-> 0]
  /\ Exit_sema = [p \in Proc |-> 0]
  /\ Destroy_sema = [p \in Proc |-> 0]
  /\ is_loaded = [p \in Proc |-> FALSE]
  /\ exit_status = [p \in Proc |-> 0]
  /\ has_pagedir = [p \in Proc |-> FALSE]
  /\ has_files = [p \in Proc |-> FALSE]
  /\ is_user_process = [p \in Proc |-> FALSE]
  /\ exec_result = [p \in Proc |-> "none"]
  /\ wait_result = [p \in Proc |-> <<>>]

Running == \A p \in Proc : ~At(p, "halt")

\* What p does in the kernel without being asked to by its program.
KernelStep(p) ==
  /\ Running
  /\ \/ FindLoading(p) \/ AwaitLoad(p) \/ ExecReturn(p)
     \/ start_process(p) \/ ReportLoad(p)
     \/ AwaitExit(p) \/ Reap(p) \/ LetGo(p)
     \/ process_exit(p) \/ ReleaseChild(p) \/ ListNext(p) \/ FreeResources(p)
     \/ NotifyParent(p) \/ AwaitReaping(p) \/ thread_exit(p)

SystemCall(p) ==
  /\ Running
  /\ p # initial_thread
  /\ \/ \E c \in Proc : process_execute(p, c) \/ process_wait(p, c)
     \/ exit(p)

\* The programs main () has started and not waited for: at most the last one.
Unwaited == {c \in ToSet(Child_list[initial_thread]) : exec_result[c] = "tid"}

\* main () runs programs one after the other: run_task () calls process_wait ()
\* for each, with a tid that is no thread's (initial_thread stands for it) when
\* it could not be loaded.  At the end main () exits too.
run_task ==
  /\ Running
  /\ \/ /\ Unwaited = {}
        /\ \/ \E c \in Proc : process_execute(initial_thread, c)
           \/ process_wait(initial_thread, initial_thread)
           \/ exit(initial_thread)
     \/ \E c \in Unwaited : process_wait(initial_thread, c)

Next == run_task \/ \E p \in Proc : KernelStep(p) \/ SystemCall(p)

Spec == Init /\ [][Next]_vars

-----------------------------------------------------------------------------
(* Properties.                                                             *)

Labels == {"unborn", "start", "report", "user", "find", "await_load", "loaded",
           "await_exit", "reap", "let_go", "halt", "dead"}
            \cup {"exit", "release", "next_child", "notify", "await_reaping",
                  "dying"}

\* The labels of a process that has begun to exit.
Exiting == {"exit", "release", "next_child", "notify", "await_reaping", "dying",
            "dead"}

TypeOK ==
  /\ allocated \subseteq Proc
  /\ pc \in [Proc -> Labels]
  /\ Child_list \in [Proc -> Seq(Proc)]
  /\ Child \in [Proc -> Proc \cup {NoProc}]
  /\ \A sema \in {Load_sema, Exit_sema, Destroy_sema} : sema \in [Proc -> Nat]
  /\ is_loaded \in [Proc -> BOOLEAN]
  /\ exit_status \in [Proc -> Int]
  /\ has_pagedir \in [Proc -> BOOLEAN]
  /\ has_files \in [Proc -> BOOLEAN]
  /\ is_user_process \in [Proc -> BOOLEAN]
  /\ exec_result \in [Proc -> {"none", "tid", "TID_ERROR"}]
  /\ wait_result \in [Proc -> Seq(Int)]

\* process_execute () returns the tid exactly when the program was loaded,
\* never before that is known ("exec 은 프로그램을 적재할 수 없으면 -1 을 반환",
\* and for a failed allocation in start_process () "부모의 exec 는 -1 을 받는다").
ExecReportsLoad ==
  \A c \in Proc :
    exec_result[c] # "none" => (exec_result[c] = "tid" <=> is_loaded[c])

\* process_wait () returns a child's exit status once, and only the status the
\* child ended with, whichever of the two came first.
WaitReturnsExitStatus ==
  \A c \in Proc :
    wait_result[c] # <<>> =>
      pc[c] \in Exiting /\ wait_result[c] = <<exit_status[c]>>

\* As long as a process may still ask for a child on its list, the struct
\* thread of the child is not freed.
ChildrenAllocated ==
  \A p \in Proc : pc[p] \notin Exiting \cup {"halt"} =>
    ToSet(Child_list[p]) \subseteq allocated

\* When process_wait () has returned for a child, its files are closed (so its
\* executable may be written again) and its memory is free.
ReapedReleased ==
  \A c \in Proc : wait_result[c] # <<>> => ~has_files[c] /\ ~has_pagedir[c]

\* What a parent may rely on: a child's status reaches it once and is the one the
\* child ended with, by then the child has given up what it held, and until then
\* its struct thread is there to be asked.
ChildrenReaped == TypeOK /\ WaitReturnsExitStatus /\ ChildrenAllocated /\ ReapedReleased

\* The walks along Child_list find every struct thread they meet allocated, as
\* list_next () asserts that its element is one of a list.
NoFreedChildWalked == Running
=============================================================================

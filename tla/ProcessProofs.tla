---------------------------- MODULE ProcessProofs ----------------------------
(***************************************************************************)
(* What Process promises, proved for any number of processes and any exit  *)
(* statuses, as long as start_process () finds the memory for a page       *)
(* directory and a Fd_table (without it a child frees itself under its     *)
(* parent, which the runs on Process show).                                *)
(***************************************************************************)
EXTENDS Process, KernelListProofs

\* The hypothesis of the theorems.
StartsInMemory == ProcessAssumption /\ "no_memory" \notin LoadResult

-----------------------------------------------------------------------------
(* The inductive invariant, in parts.                                      *)

Kids(p) == ToSet(Child_list[p])

\* Before its load () is reported, and after it has told its parent that it ended.
Infancy == {"unborn", "start", "report"}
Ended == {"await_reaping", "dying", "dead"}

\* Processes that have no more questions to their children.
Gone == Exiting \cup {"halt"}

\* A process has one parent, and is on its list once.
Kin ==
  /\ \A p \in Proc : \A i, j \in 1 .. Len(Child_list[p]) :
       Child_list[p][i] = Child_list[p][j] => i = j
  /\ \A p, q \in Proc : \A c \in Kids(p) : c \in Kids(q) => p = q

\* What a process knows of the child its call is about.
CallInv(p) ==
  /\ pc[p] \in {"find", "await_load", "loaded", "await_exit", "reap", "next_child"} =>
       Child[p] \in Kids(p)
  /\ pc[p] = "release" => Child[p] \in Kids(p) \cup {NoProc}
  /\ pc[p] = "loaded" => pc[Child[p]] \notin Infancy
  /\ pc[p] = "reap" => pc[Child[p]] \in Ended
  /\ pc[p] = "let_go" => /\ Child[p] \in Proc /\ pc[Child[p]] \in Ended
                         /\ \A q \in Proc : Child[p] \notin Kids(q)

\* A child c on the list of p has not been waited for; unless p exits, nobody has
\* let it go.
KidInv(p, c) ==
  /\ c \in Proc \ {initial_thread, p}
  /\ pc[c] # "unborn"
  /\ wait_result[c] = <<>>
  /\ pc[p] \notin Gone => Destroy_sema[c] = 0 /\ pc[c] \notin {"dying", "dead"}

\* What the semaphores and results of c say about how far it has come.
OwnInv(c) ==
  /\ pc[c] = "unborn" => Destroy_sema[c] = 0 /\ c # initial_thread
  /\ Load_sema[c] > 0 => pc[c] \notin Infancy
  /\ Exit_sema[c] > 0 => pc[c] \in Ended
  /\ exec_result[c] # "none" => /\ pc[c] \notin Infancy
                                /\ exec_result[c] = "tid" <=> is_loaded[c]
  /\ wait_result[c] # <<>> => pc[c] \in Ended /\ wait_result[c] = <<exit_status[c]>>
  /\ pc[c] \notin {"unborn", "dead"} => c \in allocated

\* What c still holds.
HoldInv(c) ==
  /\ pc[c] \in Ended \cup {"notify"} => ~has_files[c] /\ ~has_pagedir[c]
  /\ c # initial_thread /\ pc[c] \notin Ended \cup {"unborn", "start", "halt", "release",
                                                   "next_child", "notify"} => has_pagedir[c]
  /\ c # initial_thread /\ pc[c] \in {"release", "next_child"} => is_user_process[c]

PInv ==
  /\ TypeOK
  /\ Kin
  /\ \A p \in Proc : CallInv(p)
  /\ \A p \in Proc : \A c \in Kids(p) : KidInv(p, c)
  /\ \A c \in Proc : OwnInv(c)
  /\ \A c \in Proc : HoldInv(c)

-----------------------------------------------------------------------------
(* Lists of children.                                                      *)

\* list_next () gives another element of the list, or its end.
LEMMA NextChildIs ==
  ASSUME NEW S, NEW s \in Seq(S), NEW c \in ToSet(s)
  PROVE  NextChild(s, c) \in ToSet(s) \cup {NoProc}
<1>1. Place(s, c) \in 1 .. Len(s) /\ Len(s) \in Nat /\ DOMAIN s = 1 .. Len(s)
  BY PlaceIs
<1>2. Place(s, c) < Len(s) => Place(s, c) + 1 \in 1 .. Len(s)
  BY <1>1
<1> QED
  BY <1>1, <1>2 DEF NextChild, ToSet

-----------------------------------------------------------------------------
(* What a step has to show.                                                *)

\* A process on a list is one.
LEMMA KidsAreProc ==
  ASSUME PInv, NEW q \in Proc
  PROVE  /\ Kids(q) \subseteq Proc
         /\ pc[q] \in {"find", "await_load", "loaded", "await_exit", "reap", "next_child",
                       "let_go"} => Child[q] \in Proc
<1>1. Kids(q) \subseteq Proc
  BY DEF PInv, KidInv
<1> QED
  BY <1>1 DEF PInv, CallInv

\* The child of a call that is not process_exit () is on the list and alive.
LEMMA ChildIs ==
  ASSUME PInv, NEW p \in Proc, pc[p] \in {"find", "await_load", "loaded", "await_exit", "reap"}
  PROVE  /\ Child[p] \in Kids(p) /\ Child[p] \in Proc /\ Child[p] # p /\ Child[p] \in allocated
         /\ pc[Child[p]] \notin {"unborn", "dying", "dead"} /\ wait_result[Child[p]] = <<>>
<1>1. Child[p] \in Kids(p)
  BY DEF PInv, CallInv
<1>2. pc[p] \notin Gone
  BY DEF Gone, Exiting
<1>3. KidInv(p, Child[p])
  BY <1>1 DEF PInv
<1>4. /\ Child[p] \in Proc /\ Child[p] # p /\ wait_result[Child[p]] = <<>>
      /\ pc[Child[p]] \notin {"unborn", "dying", "dead"}
  BY <1>2, <1>3 DEF KidInv
<1>5. OwnInv(Child[p])
  BY <1>4 DEF PInv
<1> QED
  BY <1>1, <1>4, <1>5 DEF OwnInv

SameSemas(c) ==
  Load_sema'[c] = Load_sema[c] /\ Exit_sema'[c] = Exit_sema[c] /\ Destroy_sema'[c] = Destroy_sema[c]

SameResults(c) == exec_result'[c] = exec_result[c] /\ wait_result'[c] = wait_result[c]

SameHeld(c) ==
  /\ has_pagedir'[c] = has_pagedir[c] /\ has_files'[c] = has_files[c]
  /\ is_user_process'[c] = is_user_process[c]

\* The struct thread of c, and what was returned for it, is as it was.
Same(c) ==
  /\ pc'[c] = pc[c]
  /\ c \in allocated' <=> c \in allocated
  /\ is_loaded'[c] = is_loaded[c] /\ exit_status'[c] = exit_status[c]
  /\ SameSemas(c) /\ SameResults(c) /\ SameHeld(c)

\* A process that has reported its load () or its end, or has begun to exit, does not
\* take that back.
Advance(c) ==
  /\ pc[c] \notin Infancy => pc'[c] \notin Infancy
  /\ pc[c] \in Ended => pc'[c] \in Ended
  /\ pc[c] \in Gone => pc'[c] \in Gone

\* What the invariant says of c alone, after the step.
Fine(c) ==
  /\ OwnInv(c)'
  /\ HoldInv(c)'
  /\ \A q \in Proc : c \in Kids(q) => KidInv(q, c)'

\* The processes a step leaves alone keep what the invariant says of them.
LEMMA SameIsFine ==
  ASSUME PInv, NEW c \in Proc, Same(c), \A q \in Proc : Advance(q)
  PROVE  Fine(c)
<1>1. OwnInv(c)'
  <2>1. OwnInv(c)
    BY DEF PInv
  <2> QED
    BY <2>1 DEF OwnInv, Same, SameSemas, SameResults
<1>2. HoldInv(c)'
  <2>1. HoldInv(c)
    BY DEF PInv
  <2> QED
    BY <2>1 DEF HoldInv, Same, SameHeld
<1>3. ASSUME NEW q \in Proc, c \in Kids(q) PROVE KidInv(q, c)'
  <2>1. KidInv(q, c)
    BY <1>3 DEF PInv
  <2>2. pc'[q] \notin Gone => pc[q] \notin Gone
    BY DEF Advance
  <2> QED
    BY <2>1, <2>2 DEF KidInv, Same, SameSemas, SameResults
<1> QED
  BY <1>1, <1>2, <1>3 DEF Fine

\* Child_list alone decides who is whose child.
LEMMA KinKept ==
  ASSUME PInv, Child_list' = Child_list
  PROVE  Kin' /\ \A q \in Proc : Kids(q)' = Kids(q)
<1>1. \A q \in Proc : Kids(q)' = Kids(q)
  BY DEF Kids
<1>2. \A p, q \in Proc : \A c \in Kids(p)' : c \in Kids(q)' => p = q
  BY <1>1 DEF PInv, Kin
<1>3. \A p \in Proc : \A i, j \in 1 .. Len(Child_list'[p]) :
        Child_list'[p][i] = Child_list'[p][j] => i = j
  BY DEF PInv, Kin
<1> QED
  BY <1>1, <1>2, <1>3 DEF Kin

\* A call goes on undisturbed while others advance.
LEMMA CallKept ==
  ASSUME PInv, NEW q \in Proc, pc'[q] = pc[q], Child'[q] = Child[q],
         \A c \in Proc : Advance(c), \A r \in Proc : Kids(r)' = Kids(r)
  PROVE  CallInv(q)'
<1>1. CallInv(q)
  BY DEF PInv
<1>2. pc[q] = "loaded" => pc'[Child[q]] \notin Infancy
  BY <1>1, KidsAreProc DEF CallInv, Advance
<1>3. pc[q] \in {"reap", "let_go"} => pc'[Child[q]] \in Ended
  BY <1>1, KidsAreProc DEF CallInv, Advance
<1> QED
  BY <1>1, <1>2, <1>3 DEF CallInv

\* A step of p that changes no list, and touches the structs thread of p and d only,
\* keeps the invariant when it leaves those two and the call of p fine.
LEMMA StepKeeps ==
  ASSUME PInv, TypeOK', NEW p \in Proc, NEW d \in Proc, Child_list' = Child_list,
         \A c \in Proc : c # p => pc'[c] = pc[c] /\ Child'[c] = Child[c],
         \A c \in Proc : c # p /\ c # d => Same(c),
         Advance(p), CallInv(p)', Fine(p), Fine(d)
  PROVE  PInv'
<1>1. \A c \in Proc : Advance(c)
  BY DEF Advance
<1>2. Kin' /\ \A q \in Proc : Kids(q)' = Kids(q)
  BY KinKept
<1>3. \A c \in Proc : Fine(c)
  BY <1>1, SameIsFine
<1>4. \A q \in Proc : CallInv(q)'
  <2> SUFFICES ASSUME NEW q \in Proc, q # p PROVE CallInv(q)'
    OBVIOUS
  <2> QED
    BY <1>1, <1>2, CallKept
<1>5. \A c \in Proc : OwnInv(c)' /\ HoldInv(c)'
  BY <1>3 DEF Fine
<1>6. \A q \in Proc : \A c \in Kids(q)' : KidInv(q, c)'
  BY <1>2, <1>3, KidsAreProc DEF Fine
<1> QED
  BY <1>2, <1>4, <1>5, <1>6 DEF PInv

-----------------------------------------------------------------------------
(* The steps of one process that touch its own struct thread only.         *)

\* process_execute () looks its new child up.
LEMMA FindLoadingKeeps ==
  ASSUME StartsInMemory, PInv, NEW p \in Proc, FindLoading(p)
  PROVE  PInv'
<1> USE DEF FindLoading, Walk, Goto, At, semaVars, ownVars, resultVars
<1>1. /\ pc[p] = "find" /\ pc'[p] \in {"await_load", "halt"}
      /\ is_loaded'[p] = is_loaded[p] /\ exit_status'[p] = exit_status[p] /\ SameSemas(p)
      /\ SameResults(p) /\ SameHeld(p) /\ (p \in allocated' <=> p \in allocated)
      /\ Child'[p] = Child[p]
  BY DEF PInv, TypeOK, SameSemas, SameResults, SameHeld
<1>2. TypeOK'
  BY DEF PInv, TypeOK, Labels
<1>3. /\ Child_list' = Child_list
      /\ \A c \in Proc : c # p => pc'[c] = pc[c] /\ Child'[c] = Child[c]
      /\ \A c \in Proc : c # p => Same(c)
  BY DEF PInv, TypeOK, Same, SameSemas, SameResults, SameHeld
<1> USE DEF SameSemas, SameResults, SameHeld
<1>4. Fine(p)
  <2>1. OwnInv(p) /\ HoldInv(p)
    BY DEF PInv
  <2>2. OwnInv(p)'
    BY <1>1, <1>2, <2>1 DEF OwnInv, Infancy, Ended, TypeOK
  <2>3. HoldInv(p)'
    BY <1>1, <2>1 DEF HoldInv, Ended
  <2>4. ASSUME NEW q \in Proc, p \in Kids(q) PROVE KidInv(q, p)'
    <3>1. KidInv(q, p) /\ q # p
      BY <2>4 DEF PInv, KidInv
    <3>2. pc'[q] = pc[q]
      BY <1>3, <3>1
    <3> QED
      BY <1>1, <3>1, <3>2 DEF KidInv
  <2> QED
    BY <2>2, <2>3, <2>4 DEF Fine
<1>5. CallInv(p)'
  BY <1>1, <1>3, KinKept DEF PInv, CallInv
<1>6. Advance(p)
  BY <1>1 DEF Advance, Infancy, Ended, Gone, Exiting
<1> QED
  BY <1>2, <1>3, <1>4, <1>5, <1>6, StepKeeps

\* start_process () sets what its parent will ask for, before it reports.
LEMMA StartProcessKeeps ==
  ASSUME StartsInMemory, PInv, NEW p \in Proc, start_process(p)
  PROVE  PInv'
<1> USE DEF semaVars, ownVars, resultVars
<1>0. PICK b \in BOOLEAN :
        /\ is_loaded' = [is_loaded EXCEPT ![p] = b]
        /\ has_pagedir' = [has_pagedir EXCEPT ![p] = TRUE]
        /\ has_files' = [has_files EXCEPT ![p] = TRUE]
        /\ exit_status' = [exit_status EXCEPT ![p] = -1]
  <2>1. PICK load \in LoadResult :
          /\ is_loaded' = [is_loaded EXCEPT ![p] = load = "ok"]
          /\ has_pagedir' = [has_pagedir EXCEPT ![p] = load # "no_memory"]
          /\ \E files \in IF load = "no_memory" THEN BOOLEAN ELSE {TRUE} :
               has_files' = [has_files EXCEPT ![p] = files]
    BY Zenon DEF start_process
  <2>2. (load # "no_memory") = TRUE /\ (load = "ok") \in BOOLEAN
    BY DEF StartsInMemory
  <2>3. has_files' = [has_files EXCEPT ![p] = TRUE]
    BY <2>1, <2>2
  <2>4. has_pagedir' = [has_pagedir EXCEPT ![p] = TRUE]
    BY <2>1, <2>2, Zenon
  <2>5. exit_status' = [exit_status EXCEPT ![p] = -1]
    BY DEF start_process
  <2> QED
    BY <2>1, <2>2, <2>3, <2>4, <2>5, Zenon
<1>8. /\ pc[p] = "start" /\ pc' = [pc EXCEPT ![p] = "report"]
      /\ UNCHANGED <<allocated, Child_list, Child, semaVars, is_user_process, resultVars>>
  BY DEF start_process, At, Goto
<1>1. /\ pc[p] = "start" /\ pc'[p] = "report" /\ SameSemas(p) /\ SameResults(p)
      /\ (p \in allocated' <=> p \in allocated) /\ has_pagedir'[p] = TRUE
  BY <1>0, <1>8 DEF PInv, TypeOK, SameSemas, SameResults
<1>2. TypeOK'
  BY <1>0, <1>8 DEF PInv, TypeOK, Labels
<1>3. /\ Child_list' = Child_list
      /\ \A c \in Proc : c # p => pc'[c] = pc[c] /\ Child'[c] = Child[c]
      /\ \A c \in Proc : c # p => Same(c)
  BY <1>0, <1>8 DEF PInv, TypeOK, Same, SameSemas, SameResults, SameHeld
<1> USE DEF SameSemas, SameResults, SameHeld
<1>4. Fine(p)
  <2>1. OwnInv(p) /\ HoldInv(p)
    BY DEF PInv
  <2>2. OwnInv(p)'
    BY <1>1, <1>2, <2>1 DEF OwnInv, Infancy, Ended, TypeOK
  <2>3. HoldInv(p)'
    BY <1>1, <2>1 DEF HoldInv, Ended
  <2>4. ASSUME NEW q \in Proc, p \in Kids(q) PROVE KidInv(q, p)'
    <3>1. KidInv(q, p) /\ q # p
      BY <2>4 DEF PInv, KidInv
    <3>2. pc'[q] = pc[q]
      BY <1>3, <3>1
    <3> QED
      BY <1>1, <3>1, <3>2 DEF KidInv
  <2> QED
    BY <2>2, <2>3, <2>4 DEF Fine
<1>5. CallInv(p)'
  BY <1>1, <1>3, KinKept DEF PInv, CallInv
<1>6. Advance(p)
  BY <1>1 DEF Advance, Infancy, Ended, Gone, Exiting
<1> QED
  BY <1>2, <1>3, <1>4, <1>5, <1>6, StepKeeps

\* start_process () reports; only now may the parent go on.
LEMMA ReportLoadKeeps ==
  ASSUME StartsInMemory, PInv, NEW p \in Proc, ReportLoad(p)
  PROVE  PInv'
<1> USE DEF ReportLoad, Goto, sema_up, At, semaVars, ownVars, resultVars
<1>1. /\ pc[p] = "report" /\ pc'[p] \in {"user", "exit"} /\ is_loaded'[p] = is_loaded[p]
      /\ exit_status'[p] = exit_status[p] /\ SameResults(p) /\ SameHeld(p)
      /\ (p \in allocated' <=> p \in allocated)
      /\ Exit_sema'[p] = Exit_sema[p] /\ Destroy_sema'[p] = Destroy_sema[p]
  BY DEF PInv, TypeOK, SameResults, SameHeld
<1>2. TypeOK'
  BY DEF PInv, TypeOK, Labels
<1>3. /\ Child_list' = Child_list
      /\ \A c \in Proc : c # p => pc'[c] = pc[c] /\ Child'[c] = Child[c]
      /\ \A c \in Proc : c # p => Same(c)
  BY DEF PInv, TypeOK, Same, SameSemas, SameResults, SameHeld
<1> USE DEF SameSemas, SameResults, SameHeld
<1>4. Fine(p)
  <2>1. OwnInv(p) /\ HoldInv(p)
    BY DEF PInv
  <2>2. OwnInv(p)'
    BY <1>1, <1>2, <2>1 DEF OwnInv, Infancy, Ended, TypeOK
  <2>3. HoldInv(p)'
    BY <1>1, <2>1 DEF HoldInv, Ended
  <2>4. ASSUME NEW q \in Proc, p \in Kids(q) PROVE KidInv(q, p)'
    <3>1. KidInv(q, p) /\ q # p
      BY <2>4 DEF PInv, KidInv
    <3>2. pc'[q] = pc[q]
      BY <1>3, <3>1
    <3> QED
      BY <1>1, <3>1, <3>2 DEF KidInv
  <2> QED
    BY <2>2, <2>3, <2>4 DEF Fine
<1>5. CallInv(p)'
  BY <1>1, <1>3, KinKept, Zenon DEF PInv, CallInv
<1>6. Advance(p)
  BY <1>1, Zenon DEF Advance, Infancy, Ended, Gone, Exiting
<1> QED
  BY <1>2, <1>3, <1>4, <1>5, <1>6, StepKeeps

\* exit () sets the status while nobody reads it.
LEMMA ExitKeeps ==
  ASSUME StartsInMemory, PInv, NEW p \in Proc, exit(p)
  PROVE  PInv'
<1> USE DEF semaVars, ownVars, resultVars
<1>0. PICK status \in Int : exit_status' = [exit_status EXCEPT ![p] = status]
  <2>1. PICK status \in ExitStatus \cup {exit_status[p]} :
          exit_status' = [exit_status EXCEPT ![p] = status]
    BY Zenon DEF exit
  <2>2. status \in Int
    BY DEF StartsInMemory, ProcessAssumption, PInv, TypeOK
  <2> QED
    BY <2>1, <2>2, Zenon
<1>8. /\ pc[p] = "user" /\ pc' = [pc EXCEPT ![p] = "exit"]
      /\ UNCHANGED <<allocated, Child_list, Child, semaVars, is_loaded, has_pagedir, has_files,
                     is_user_process, resultVars>>
  BY DEF exit, At, Goto
<1>1. /\ pc[p] = "user" /\ pc'[p] = "exit" /\ is_loaded'[p] = is_loaded[p] /\ SameSemas(p)
      /\ SameResults(p) /\ SameHeld(p) /\ (p \in allocated' <=> p \in allocated)
  BY <1>0, <1>8 DEF PInv, TypeOK, SameSemas, SameResults, SameHeld
<1>2. TypeOK'
  BY <1>0, <1>8 DEF PInv, TypeOK, Labels
<1>3. /\ Child_list' = Child_list
      /\ \A c \in Proc : c # p => pc'[c] = pc[c] /\ Child'[c] = Child[c]
      /\ \A c \in Proc : c # p => Same(c)
  BY <1>0, <1>8 DEF PInv, TypeOK, Same, SameSemas, SameResults, SameHeld
<1> USE DEF SameSemas, SameResults, SameHeld
<1>4. Fine(p)
  <2>1. OwnInv(p) /\ HoldInv(p)
    BY DEF PInv
  <2>2. OwnInv(p)'
    BY <1>1, <1>2, <2>1, Zenon DEF OwnInv, Infancy, Ended, TypeOK
  <2>3. HoldInv(p)'
    BY <1>1, <2>1, Zenon DEF HoldInv, Ended
  <2>4. ASSUME NEW q \in Proc, p \in Kids(q) PROVE KidInv(q, p)'
    <3>1. KidInv(q, p) /\ q # p
      BY <2>4 DEF PInv, KidInv
    <3>2. pc'[q] = pc[q]
      BY <1>3, <3>1
    <3> QED
      BY <1>1, <3>1, <3>2, Zenon DEF KidInv
  <2> QED
    BY <2>2, <2>3, <2>4 DEF Fine
<1>5. CallInv(p)'
  BY <1>1, <1>3, KinKept, Zenon DEF PInv, CallInv
<1>6. Advance(p)
  BY <1>1 DEF Advance, Infancy, Ended, Gone, Exiting
<1> QED
  BY <1>2, <1>3, <1>4, <1>5, <1>6, StepKeeps

\* process_exit () starts with its first child.
LEMMA ProcessExitKeeps ==
  ASSUME StartsInMemory, PInv, NEW p \in Proc, process_exit(p)
  PROVE  PInv'
<1> USE DEF semaVars, ownVars, resultVars
<1>0. PICK d \in Proc \cup {NoProc} : /\ d \in Kids(p) \cup {NoProc}
                                     /\ Child' = [Child EXCEPT ![p] = d]
  <2>1. Child_list[p] \in Seq(Proc)
    BY DEF PInv, TypeOK
  <2>2. Child_list[p] # <<>> => Head(Child_list[p]) \in Kids(p) /\ Head(Child_list[p]) \in Proc
    <3>1. PICK s \in Seq(Proc) : s = Child_list[p]
      BY <2>1
    <3>2. s # <<>> => 1 \in 1 .. Len(s) /\ Head(s) = s[1] /\ s[1] \in Proc
      OBVIOUS
    <3>3. s # <<>> => Head(s) \in ToSet(s)
      BY <3>2 DEF ToSet
    <3> QED
      BY <3>1, <3>2, <3>3, Zenon DEF Kids
  <2>3. Child' = [Child EXCEPT ![p] =
                    IF Child_list[p] = <<>> THEN NoProc ELSE Head(Child_list[p])]
    BY DEF process_exit
  <2> QED
    BY <2>2, <2>3, Zenon
<1>8. /\ pc[p] = "exit" /\ pc' = [pc EXCEPT ![p] = "release"]
      /\ is_user_process' = [is_user_process EXCEPT ![p] = has_pagedir[p]]
      /\ UNCHANGED <<allocated, Child_list, semaVars, is_loaded, exit_status, has_pagedir,
                     has_files, resultVars>>
  BY DEF process_exit, At, Goto
<1>1. /\ pc[p] = "exit" /\ pc'[p] = "release" /\ is_loaded'[p] = is_loaded[p]
      /\ exit_status'[p] = exit_status[p] /\ SameSemas(p) /\ SameResults(p)
      /\ (p \in allocated' <=> p \in allocated)
      /\ has_pagedir'[p] = has_pagedir[p] /\ has_files'[p] = has_files[p]
      /\ is_user_process'[p] = has_pagedir[p]
      /\ Child'[p] \in Kids(p) \cup {NoProc}
  BY <1>0, <1>8 DEF PInv, TypeOK, SameSemas, SameResults
<1>2. TypeOK'
  BY <1>0, <1>8 DEF PInv, TypeOK, Labels
<1>3. /\ Child_list' = Child_list
      /\ \A c \in Proc : c # p => pc'[c] = pc[c] /\ Child'[c] = Child[c]
      /\ \A c \in Proc : c # p => Same(c)
  BY <1>0, <1>8 DEF PInv, TypeOK, Same, SameSemas, SameResults, SameHeld
<1> USE DEF SameSemas, SameResults, SameHeld
<1>4. Fine(p)
  <2>1. OwnInv(p) /\ HoldInv(p)
    BY DEF PInv
  <2>2. OwnInv(p)'
    BY <1>1, <1>2, <2>1 DEF OwnInv, Infancy, Ended, TypeOK
  <2>3. HoldInv(p)'
    BY <1>1, <2>1, Zenon DEF HoldInv, Ended
  <2>4. ASSUME NEW q \in Proc, p \in Kids(q) PROVE KidInv(q, p)'
    <3>1. KidInv(q, p) /\ q # p
      BY <2>4 DEF PInv, KidInv
    <3>2. pc'[q] = pc[q]
      BY <1>3, <3>1
    <3> QED
      BY <1>1, <3>1, <3>2, Zenon DEF KidInv
  <2> QED
    BY <2>2, <2>3, <2>4 DEF Fine
<1>5. CallInv(p)'
  BY <1>1, <1>3, KinKept, Zenon DEF PInv, CallInv
<1>6. Advance(p)
  BY <1>1, Zenon DEF Advance, Infancy, Ended, Gone, Exiting
<1> QED
  BY <1>2, <1>3, <1>4, <1>5, <1>6, StepKeeps

\* process_exit () finds the next child.
LEMMA ListNextKeeps ==
  ASSUME StartsInMemory, PInv, NEW p \in Proc, ListNext(p)
  PROVE  PInv'
<1> USE DEF semaVars, ownVars, resultVars
<1>0. PICK d \in Proc \cup {NoProc} : /\ d \in Kids(p) \cup {NoProc}
                                     /\ Child' = [Child EXCEPT ![p] = d]
  <2>1. Child_list[p] \in Seq(Proc) /\ Child[p] \in ToSet(Child_list[p])
    BY DEF PInv, TypeOK, CallInv, Kids, ListNext, At
  <2>2. NextChild(Child_list[p], Child[p]) \in Kids(p) \cup {NoProc}
    BY <2>1, NextChildIs DEF Kids
  <2>3. Kids(p) \subseteq Proc
    BY KidsAreProc
  <2>4. Child' = [Child EXCEPT ![p] = NextChild(Child_list[p], Child[p])]
    BY DEF ListNext
  <2> QED
    BY <2>2, <2>3, <2>4, Zenon
<1>8. /\ pc[p] = "next_child" /\ pc' = [pc EXCEPT ![p] = pc'[p]] /\ pc'[p] \in {"release", "halt"}
      /\ UNCHANGED <<allocated, Child_list, semaVars, ownVars, resultVars>>
  <2>1. PICK l \in {"release", "halt"} : pc' = [pc EXCEPT ![p] = l]
    BY Zenon DEF ListNext, Walk, Goto
  <2> QED
    BY <2>1 DEF ListNext, At, PInv, TypeOK
<1>1. /\ pc[p] = "next_child" /\ pc'[p] \in {"release", "halt"}
      /\ is_loaded'[p] = is_loaded[p] /\ exit_status'[p] = exit_status[p] /\ SameSemas(p)
      /\ SameResults(p) /\ SameHeld(p) /\ (p \in allocated' <=> p \in allocated)
      /\ Child'[p] \in Kids(p) \cup {NoProc}
  BY <1>0, <1>8 DEF PInv, TypeOK, SameSemas, SameResults, SameHeld
<1>2. TypeOK'
  BY <1>0, <1>8, Zenon DEF PInv, TypeOK, Labels
<1>3. /\ Child_list' = Child_list
      /\ \A c \in Proc : c # p => pc'[c] = pc[c] /\ Child'[c] = Child[c]
      /\ \A c \in Proc : c # p => Same(c)
  BY <1>0, <1>8 DEF PInv, TypeOK, Same, SameSemas, SameResults, SameHeld
<1> USE DEF SameSemas, SameResults, SameHeld
<1>4. Fine(p)
  <2>1. OwnInv(p) /\ HoldInv(p)
    BY DEF PInv
  <2>2. OwnInv(p)'
    BY <1>1, <1>2, <2>1, Zenon DEF OwnInv, Infancy, Ended, TypeOK
  <2>3. HoldInv(p)'
    BY <1>1, <2>1, Zenon DEF HoldInv, Ended
  <2>4. ASSUME NEW q \in Proc, p \in Kids(q) PROVE KidInv(q, p)'
    <3>1. KidInv(q, p) /\ q # p
      BY <2>4 DEF PInv, KidInv
    <3>2. pc'[q] = pc[q]
      BY <1>3, <3>1
    <3> QED
      BY <1>1, <3>1, <3>2, Zenon DEF KidInv
  <2> QED
    BY <2>2, <2>3, <2>4 DEF Fine
<1>5. CallInv(p)'
  BY <1>1, <1>3, KinKept, Zenon DEF PInv, CallInv
<1>6. Advance(p)
  BY <1>1, Zenon DEF Advance, Infancy, Ended, Gone, Exiting
<1> QED
  BY <1>2, <1>3, <1>4, <1>5, <1>6, StepKeeps

\* process_exit () gives up what the process holds; a user process goes on to tell.
LEMMA FreeResourcesKeeps ==
  ASSUME StartsInMemory, PInv, NEW p \in Proc, FreeResources(p)
  PROVE  PInv'
<1> USE DEF FreeResources, Goto, At, semaVars, ownVars, resultVars
<1>1. /\ pc[p] = "release" /\ pc'[p] \in {"notify", "dying"}
      /\ is_loaded'[p] = is_loaded[p] /\ exit_status'[p] = exit_status[p] /\ SameSemas(p)
      /\ SameResults(p) /\ (p \in allocated' <=> p \in allocated)
      /\ has_files'[p] = FALSE /\ has_pagedir'[p] = FALSE
      /\ (p # initial_thread => pc'[p] = "notify")
  BY DEF PInv, TypeOK, SameSemas, SameResults, HoldInv
<1>2. TypeOK'
  BY DEF PInv, TypeOK, Labels
<1>3. /\ Child_list' = Child_list
      /\ \A c \in Proc : c # p => pc'[c] = pc[c] /\ Child'[c] = Child[c]
      /\ \A c \in Proc : c # p => Same(c)
  BY DEF PInv, TypeOK, Same, SameSemas, SameResults, SameHeld
<1> USE DEF SameSemas, SameResults, SameHeld
<1>4. Fine(p)
  <2>1. OwnInv(p) /\ HoldInv(p)
    BY Zenon DEF PInv
  <2>2. OwnInv(p)'
    BY <1>1, <1>2, <2>1 DEF OwnInv, Infancy, Ended, TypeOK
  <2>3. HoldInv(p)'
    BY <1>1, <2>1, Zenon DEF HoldInv, Ended
  <2>4. ASSUME NEW q \in Proc, p \in Kids(q) PROVE KidInv(q, p)'
    <3>1. KidInv(q, p) /\ q # p
      BY <2>4, Zenon DEF PInv, KidInv
    <3>2. pc'[q] = pc[q]
      BY <1>3, <3>1, Zenon
    <3> QED
      BY <1>1, <3>1, <3>2, Zenon DEF KidInv
  <2> QED
    BY <2>2, <2>3, <2>4 DEF Fine
<1>5. CallInv(p)'
  BY <1>1, <1>3, KinKept, Zenon DEF PInv, CallInv
<1>6. Advance(p)
  BY <1>1, Zenon DEF Advance, Infancy, Ended, Gone, Exiting
<1> QED
  BY <1>2, <1>3, <1>4, <1>5, <1>6, StepKeeps, Zenon

\* process_exit () tells the parent.
LEMMA NotifyParentKeeps ==
  ASSUME StartsInMemory, PInv, NEW p \in Proc, NotifyParent(p)
  PROVE  PInv'
<1> USE DEF NotifyParent, Goto, sema_up, At, semaVars, ownVars, resultVars
<1>1. /\ pc[p] = "notify" /\ pc'[p] = "await_reaping" /\ is_loaded'[p] = is_loaded[p]
      /\ exit_status'[p] = exit_status[p] /\ SameResults(p) /\ SameHeld(p)
      /\ (p \in allocated' <=> p \in allocated)
      /\ Load_sema'[p] = Load_sema[p] /\ Destroy_sema'[p] = Destroy_sema[p]
  BY DEF PInv, TypeOK, SameResults, SameHeld
<1>2. TypeOK'
  BY DEF PInv, TypeOK, Labels
<1>3. /\ Child_list' = Child_list
      /\ \A c \in Proc : c # p => pc'[c] = pc[c] /\ Child'[c] = Child[c]
      /\ \A c \in Proc : c # p => Same(c)
  BY DEF PInv, TypeOK, Same, SameSemas, SameResults, SameHeld
<1> USE DEF SameSemas, SameResults, SameHeld
<1>4. Fine(p)
  <2>1. OwnInv(p) /\ HoldInv(p)
    BY DEF PInv
  <2>2. OwnInv(p)'
    BY <1>1, <1>2, <2>1 DEF OwnInv, Infancy, Ended, TypeOK
  <2>3. HoldInv(p)'
    BY <1>1, <2>1 DEF HoldInv, Ended
  <2>4. ASSUME NEW q \in Proc, p \in Kids(q) PROVE KidInv(q, p)'
    <3>1. KidInv(q, p) /\ q # p
      BY <2>4 DEF PInv, KidInv
    <3>2. pc'[q] = pc[q]
      BY <1>3, <3>1
    <3> QED
      BY <1>1, <3>1, <3>2 DEF KidInv
  <2> QED
    BY <2>2, <2>3, <2>4 DEF Fine
<1>5. CallInv(p)'
  BY <1>1, <1>3, KinKept, Zenon DEF PInv, CallInv
<1>6. Advance(p)
  BY <1>1, Zenon DEF Advance, Infancy, Ended, Gone, Exiting
<1> QED
  BY <1>2, <1>3, <1>4, <1>5, <1>6, StepKeeps, Zenon

\* The end of a process waits for its parent.
LEMMA AwaitReapingKeeps ==
  ASSUME StartsInMemory, PInv, NEW p \in Proc, AwaitReaping(p)
  PROVE  PInv'
<1> USE DEF AwaitReaping, Goto, sema_down, At, semaVars, ownVars, resultVars
<1>1. /\ pc[p] = "await_reaping" /\ pc'[p] = "dying" /\ is_loaded'[p] = is_loaded[p]
      /\ exit_status'[p] = exit_status[p] /\ SameResults(p) /\ SameHeld(p)
      /\ (p \in allocated' <=> p \in allocated)
      /\ Load_sema'[p] = Load_sema[p] /\ Exit_sema'[p] = Exit_sema[p]
      /\ Destroy_sema[p] \in Nat /\ Destroy_sema[p] > 0 /\ Destroy_sema'[p] = Destroy_sema[p] - 1
  BY Zenon DEF PInv, TypeOK, SameResults, SameHeld
<1>2. TypeOK'
  <2>1. Destroy_sema[p] \in Nat /\ Destroy_sema[p] > 0 /\ Destroy_sema \in [Proc -> Nat]
    BY Zenon DEF PInv, TypeOK
  <2>2. Destroy_sema' = [Destroy_sema EXCEPT ![p] = @ - 1] /\ Destroy_sema[p] - 1 \in Nat
    BY <2>1
  <2>3. Destroy_sema' \in [Proc -> Nat]
    BY <2>1, <2>2
  <2> QED
    BY <2>3 DEF PInv, TypeOK, Labels
<1>3. /\ Child_list' = Child_list
      /\ \A c \in Proc : c # p => pc'[c] = pc[c] /\ Child'[c] = Child[c]
      /\ \A c \in Proc : c # p => Same(c)
  BY Zenon DEF PInv, TypeOK, Same, SameSemas, SameResults, SameHeld
<1> USE DEF SameSemas, SameResults, SameHeld
<1>4. Fine(p)
  <2>1. OwnInv(p) /\ HoldInv(p)
    BY DEF PInv
  <2>2. OwnInv(p)'
    BY <1>1, <1>2, <2>1 DEF OwnInv, Infancy, Ended, TypeOK
  <2>3. HoldInv(p)'
    BY <1>1, <2>1 DEF HoldInv, Ended
  <2>4. ASSUME NEW q \in Proc, p \in Kids(q) PROVE KidInv(q, p)'
    <3>1. KidInv(q, p) /\ q # p
      BY <2>4 DEF PInv, KidInv
    <3>2. pc'[q] = pc[q]
      BY <1>3, <3>1
    <3> QED
      BY <1>1, <3>1, <3>2 DEF KidInv
  <2> QED
    BY <2>2, <2>3, <2>4 DEF Fine
<1>5. CallInv(p)'
  BY <1>1, <1>3, KinKept, Zenon DEF PInv, CallInv
<1>6. Advance(p)
  BY <1>1, Zenon DEF Advance, Infancy, Ended, Gone, Exiting
<1> QED
  BY <1>2, <1>3, <1>4, <1>5, <1>6, StepKeeps

\* The struct thread is freed.
LEMMA ThreadExitKeeps ==
  ASSUME StartsInMemory, PInv, NEW p \in Proc, thread_exit(p)
  PROVE  PInv'
<1> USE DEF thread_exit, Goto, At, semaVars, ownVars, resultVars
<1>1. /\ pc[p] = "dying" /\ pc'[p] = "dead" /\ is_loaded'[p] = is_loaded[p]
      /\ exit_status'[p] = exit_status[p] /\ SameSemas(p) /\ SameResults(p) /\ SameHeld(p)
  BY DEF PInv, TypeOK, SameSemas, SameResults, SameHeld
<1>2. TypeOK'
  BY DEF PInv, TypeOK, Labels
<1>3. /\ Child_list' = Child_list
      /\ \A c \in Proc : c # p => pc'[c] = pc[c] /\ Child'[c] = Child[c]
      /\ \A c \in Proc : c # p => Same(c)
  BY DEF PInv, TypeOK, Same, SameSemas, SameResults, SameHeld
<1> USE DEF SameSemas, SameResults, SameHeld
<1>4. Fine(p)
  <2>1. OwnInv(p) /\ HoldInv(p)
    BY DEF PInv
  <2>2. OwnInv(p)'
    BY <1>1, <1>2, <2>1 DEF OwnInv, Infancy, Ended, TypeOK
  <2>3. HoldInv(p)'
    BY <1>1, <2>1 DEF HoldInv, Ended
  <2>4. ASSUME NEW q \in Proc, p \in Kids(q) PROVE KidInv(q, p)'
    <3>1. KidInv(q, p) /\ q # p
      BY <2>4, Zenon DEF PInv, KidInv
    <3>2. pc'[q] = pc[q]
      BY <1>3, <3>1
    <3> QED
      BY <1>1, <3>1, <3>2 DEF KidInv
  <2> QED
    BY <2>2, <2>3, <2>4 DEF Fine
<1>5. CallInv(p)'
  BY <1>1, <1>3, KinKept, Zenon DEF PInv, CallInv
<1>6. Advance(p)
  BY <1>1, Zenon DEF Advance, Infancy, Ended, Gone, Exiting
<1> QED
  BY <1>2, <1>3, <1>4, <1>5, <1>6, StepKeeps

-----------------------------------------------------------------------------
(* The steps of one process that touch the struct thread of its child.     *)

\* process_execute () takes the report of load (): the child has made it.
LEMMA AwaitLoadKeeps ==
  ASSUME StartsInMemory, PInv, NEW p \in Proc, AwaitLoad(p)
  PROVE  PInv'
<1>0. PICK d \in Proc : d = Child[p]
  BY KidsAreProc DEF AwaitLoad, At
<1>1. d \in Kids(p) /\ d # p /\ d \in allocated /\ pc[d] \notin Infancy
  <2>1. d \in Kids(p) /\ d # p /\ d \in allocated
    BY <1>0, ChildIs DEF AwaitLoad, At
  <2>2. Load_sema[d] \in Nat /\ Load_sema[d] > 0
    BY <1>0, <2>1 DEF AwaitLoad, PInv, TypeOK
  <2>3. OwnInv(d)
    BY DEF PInv
  <2> QED
    BY <2>1, <2>2, <2>3 DEF OwnInv
<1>2. Load_sema[d] \in Nat /\ Load_sema[d] > 0 /\ Load_sema' = [Load_sema EXCEPT ![d] = @ - 1]
  BY <1>0, <1>1 DEF AwaitLoad, sema_down, PInv, TypeOK
<1>3. /\ pc[p] = "await_load" /\ pc' = [pc EXCEPT ![p] = "loaded"]
      /\ UNCHANGED <<allocated, Child_list, Child, Exit_sema, Destroy_sema, ownVars, resultVars>>
  BY DEF AwaitLoad, At, Goto
<1> USE DEF semaVars, ownVars, resultVars
<1>4. TypeOK'
  <2>1. Load_sema \in [Proc -> Nat] /\ Load_sema[d] - 1 \in Nat
    BY <1>2 DEF PInv, TypeOK
  <2>2. Load_sema' \in [Proc -> Nat]
    BY <1>2, <2>1
  <2> QED
    BY <1>3, <2>2, Zenon DEF PInv, TypeOK, Labels
<1>5. /\ Child_list' = Child_list
      /\ \A c \in Proc : c # p => pc'[c] = pc[c] /\ Child'[c] = Child[c]
      /\ \A c \in Proc : c # p /\ c # d => Same(c)
  BY <1>1, <1>2, <1>3 DEF PInv, TypeOK, Same, SameSemas, SameResults, SameHeld
<1>6. pc'[p] = "loaded" /\ pc'[d] = pc[d] /\ Load_sema'[p] = Load_sema[p]
  BY <1>1, <1>2, <1>3 DEF PInv, TypeOK
<1>7. Fine(p)
  <2>1. OwnInv(p) /\ HoldInv(p) /\ \A q \in Proc : p \in Kids(q) => KidInv(q, p)
    BY DEF PInv
  <2>2. OwnInv(p)'
    BY <1>3, <1>6, <2>1 DEF OwnInv, Infancy, Ended
  <2>3. HoldInv(p)'
    BY <1>3, <1>6, <2>1, Zenon DEF HoldInv, Ended
  <2>4. \A q \in Proc : p \in Kids(q) => KidInv(q, p)'
    BY <1>3, <1>5, <1>6, <2>1 DEF KidInv
  <2> QED
    BY <2>2, <2>3, <2>4 DEF Fine
<1>8. Fine(d)
  <2>1. OwnInv(d) /\ HoldInv(d) /\ \A q \in Proc : d \in Kids(q) => KidInv(q, d)
    BY DEF PInv
  <2>2. OwnInv(d)'
    BY <1>1, <1>3, <1>6, <2>1, Zenon DEF OwnInv, Infancy, Ended
  <2>3. HoldInv(d)'
    BY <1>3, <1>6, <2>1, Zenon DEF HoldInv
  <2>4. \A q \in Proc : d \in Kids(q) => KidInv(q, d)'
    BY <1>1, <1>3, <1>5, <1>6, <2>1, Zenon DEF KidInv, Gone, Exiting
  <2> QED
    BY <2>2, <2>3, <2>4 DEF Fine
<1>9. CallInv(p)'
  BY <1>0, <1>1, <1>3, <1>5, <1>6, KinKept, Zenon DEF CallInv
<1>10. Advance(p)
  BY <1>3, <1>6, Zenon DEF Advance, Infancy, Ended, Gone, Exiting
<1> QED
  BY <1>4, <1>5, <1>7, <1>8, <1>9, <1>10, StepKeeps, Zenon

\* process_execute () returns what the child reported.
LEMMA ExecReturnKeeps ==
  ASSUME StartsInMemory, PInv, NEW p \in Proc, ExecReturn(p)
  PROVE  PInv'
<1>0. PICK d \in Proc : d = Child[p]
  BY KidsAreProc DEF ExecReturn, At
<1>1. d \in Kids(p) /\ d # p /\ d \in allocated /\ pc[d] \notin Infancy
  BY <1>0, ChildIs DEF ExecReturn, At, PInv, CallInv
<1>2. exec_result' = [exec_result EXCEPT ![d] = IF is_loaded[d] THEN "tid" ELSE "TID_ERROR"]
  BY <1>0, <1>1 DEF ExecReturn, Read, PInv, TypeOK
<1>3. /\ pc[p] = "loaded" /\ pc' = [pc EXCEPT ![p] = "user"]
      /\ Child' = [Child EXCEPT ![p] = NoProc]
      /\ UNCHANGED <<allocated, Child_list, semaVars, ownVars, wait_result>>
  BY DEF ExecReturn, At, Goto
<1> USE DEF semaVars, ownVars, resultVars
<1>4. TypeOK'
  BY <1>2, <1>3, Zenon DEF PInv, TypeOK, Labels
<1>5. /\ Child_list' = Child_list
      /\ \A c \in Proc : c # p => pc'[c] = pc[c] /\ Child'[c] = Child[c]
      /\ \A c \in Proc : c # p /\ c # d => Same(c)
  BY <1>1, <1>2, <1>3 DEF PInv, TypeOK, Same, SameSemas, SameResults, SameHeld
<1>6. /\ pc'[p] = "user" /\ pc'[d] = pc[d] /\ exec_result'[p] = exec_result[p]
      /\ exec_result'[d] = IF is_loaded[d] THEN "tid" ELSE "TID_ERROR"
  BY <1>1, <1>2, <1>3 DEF PInv, TypeOK
<1>7. Fine(p)
  <2>1. OwnInv(p) /\ HoldInv(p) /\ \A q \in Proc : p \in Kids(q) => KidInv(q, p)
    BY DEF PInv
  <2>2. OwnInv(p)'
    BY <1>3, <1>6, <2>1 DEF OwnInv, Infancy, Ended
  <2>3. HoldInv(p)'
    BY <1>3, <1>6, <2>1 DEF HoldInv, Ended
  <2>4. \A q \in Proc : p \in Kids(q) => KidInv(q, p)'
    BY <1>3, <1>5, <1>6, <2>1 DEF KidInv
  <2> QED
    BY <2>2, <2>3, <2>4 DEF Fine
<1>8. Fine(d)
  <2>1. OwnInv(d) /\ HoldInv(d) /\ \A q \in Proc : d \in Kids(q) => KidInv(q, d)
    BY DEF PInv
  <2>2. OwnInv(d)'
    BY <1>1, <1>3, <1>6, <2>1, Zenon DEF OwnInv, Infancy, Ended
  <2>3. HoldInv(d)'
    BY <1>3, <1>6, <2>1, Zenon DEF HoldInv
  <2>4. \A q \in Proc : d \in Kids(q) => KidInv(q, d)'
    BY <1>1, <1>3, <1>5, <1>6, <2>1, Zenon DEF KidInv, Gone, Exiting
  <2> QED
    BY <2>2, <2>3, <2>4 DEF Fine
<1>9. CallInv(p)'
  BY <1>0, <1>1, <1>3, <1>5, <1>6, KinKept DEF CallInv
<1>10. Advance(p)
  BY <1>3, <1>6, Zenon DEF Advance, Infancy, Ended, Gone, Exiting
<1> QED
  BY <1>4, <1>5, <1>7, <1>8, <1>9, <1>10, StepKeeps

\* process_wait () is told that the child has ended.
LEMMA AwaitExitKeeps ==
  ASSUME StartsInMemory, PInv, NEW p \in Proc, AwaitExit(p)
  PROVE  PInv'
<1>0. PICK d \in Proc : d = Child[p]
  BY KidsAreProc, Zenon DEF AwaitExit, At
<1>1. d \in Kids(p) /\ d # p /\ pc[d] \in Ended
  <2>1. d \in Kids(p) /\ d # p
    BY <1>0, ChildIs DEF AwaitExit, At
  <2>2. Exit_sema[d] \in Nat /\ Exit_sema[d] > 0
    BY <1>0, <2>1 DEF AwaitExit, PInv, TypeOK
  <2>3. OwnInv(d)
    BY DEF PInv
  <2> QED
    BY <2>1, <2>2, <2>3, Zenon DEF OwnInv
<1>2. Exit_sema[d] \in Nat /\ Exit_sema[d] > 0 /\ Exit_sema' = [Exit_sema EXCEPT ![d] = @ - 1]
  BY <1>0, <1>1 DEF AwaitExit, sema_down, PInv, TypeOK
<1>3. /\ pc[p] = "await_exit" /\ pc' = [pc EXCEPT ![p] = "reap"]
      /\ UNCHANGED <<allocated, Child_list, Child, Load_sema, Destroy_sema, ownVars, resultVars>>
  BY DEF AwaitExit, At, Goto
<1> USE DEF semaVars, ownVars, resultVars
<1>4. TypeOK'
  <2>1. Exit_sema \in [Proc -> Nat] /\ Exit_sema[d] - 1 \in Nat
    BY <1>2 DEF PInv, TypeOK
  <2>2. Exit_sema' \in [Proc -> Nat]
    BY <1>2, <2>1
  <2> QED
    BY <1>3, <2>2, Zenon DEF PInv, TypeOK, Labels
<1>5. /\ Child_list' = Child_list
      /\ \A c \in Proc : c # p => pc'[c] = pc[c] /\ Child'[c] = Child[c]
      /\ \A c \in Proc : c # p /\ c # d => Same(c)
  BY <1>1, <1>2, <1>3 DEF PInv, TypeOK, Same, SameSemas, SameResults, SameHeld
<1>6. pc'[p] = "reap" /\ pc'[d] = pc[d] /\ Exit_sema'[p] = Exit_sema[p]
  BY <1>1, <1>2, <1>3 DEF PInv, TypeOK
<1>7. Fine(p)
  <2>1. OwnInv(p) /\ HoldInv(p) /\ \A q \in Proc : p \in Kids(q) => KidInv(q, p)
    BY DEF PInv
  <2>2. OwnInv(p)'
    BY <1>3, <1>6, <2>1, Zenon DEF OwnInv, Infancy, Ended
  <2>3. HoldInv(p)'
    BY <1>3, <1>6, <2>1, Zenon DEF HoldInv, Ended
  <2>4. \A q \in Proc : p \in Kids(q) => KidInv(q, p)'
    BY <1>3, <1>5, <1>6, <2>1 DEF KidInv
  <2> QED
    BY <2>2, <2>3, <2>4 DEF Fine
<1>8. Fine(d)
  <2>1. OwnInv(d) /\ HoldInv(d) /\ \A q \in Proc : d \in Kids(q) => KidInv(q, d)
    BY DEF PInv
  <2>2. OwnInv(d)'
    BY <1>1, <1>3, <1>6, <2>1, Zenon DEF OwnInv, Infancy, Ended
  <2>3. HoldInv(d)'
    BY <1>3, <1>6, <2>1, Zenon DEF HoldInv
  <2>4. \A q \in Proc : d \in Kids(q) => KidInv(q, d)'
    BY <1>1, <1>3, <1>5, <1>6, <2>1, Zenon DEF KidInv, Gone, Exiting
  <2> QED
    BY <2>2, <2>3, <2>4 DEF Fine
<1>9. CallInv(p)'
  BY <1>0, <1>1, <1>3, <1>5, <1>6, KinKept, Zenon DEF CallInv
<1>10. Advance(p)
  BY <1>3, <1>6, Zenon DEF Advance, Infancy, Ended, Gone, Exiting
<1> QED
  BY <1>4, <1>5, <1>7, <1>8, <1>9, <1>10, StepKeeps

\* process_wait () lets the child go, which is on no list any more.
LEMMA LetGoKeeps ==
  ASSUME StartsInMemory, PInv, NEW p \in Proc, LetGo(p)
  PROVE  PInv'
<1>0. PICK d \in Proc : d = Child[p]
  BY KidsAreProc DEF LetGo, At
<1>1. d # p /\ pc[d] \in Ended /\ \A q \in Proc : d \notin Kids(q)
  <2>1. pc[p] = "let_go" /\ CallInv(p)
    BY DEF LetGo, At, PInv
  <2> QED
    BY <1>0, <2>1 DEF CallInv, Ended
<1>2. Destroy_sema' = [Destroy_sema EXCEPT ![d] = @ + 1]
  BY <1>0, <1>1 DEF LetGo, sema_up, PInv, TypeOK
<1>3. /\ pc[p] = "let_go" /\ pc' = [pc EXCEPT ![p] = "user"]
      /\ Child' = [Child EXCEPT ![p] = NoProc]
      /\ UNCHANGED <<allocated, Child_list, Load_sema, Exit_sema, ownVars, resultVars>>
  BY DEF LetGo, At, Goto
<1> USE DEF semaVars, ownVars, resultVars
<1>4. TypeOK'
  <2>1. Destroy_sema \in [Proc -> Nat]
    BY Zenon DEF PInv, TypeOK
  <2>2. Destroy_sema' \in [Proc -> Nat]
    <3>1. Destroy_sema[d] + 1 \in Nat
      BY <2>1
    <3> QED
      BY <1>2, <2>1, <3>1
  <2> QED
    BY <1>3, <2>2, Zenon DEF PInv, TypeOK, Labels
<1>5. /\ Child_list' = Child_list
      /\ \A c \in Proc : c # p => pc'[c] = pc[c] /\ Child'[c] = Child[c]
      /\ \A c \in Proc : c # p /\ c # d => Same(c)
  BY <1>1, <1>2, <1>3, Zenon DEF PInv, TypeOK, Same, SameSemas, SameResults, SameHeld
<1>6. pc'[p] = "user" /\ pc'[d] = pc[d] /\ Destroy_sema'[p] = Destroy_sema[p]
  BY <1>1, <1>2, <1>3, Zenon DEF PInv, TypeOK
<1>7. Fine(p)
  <2>1. OwnInv(p) /\ HoldInv(p) /\ \A q \in Proc : p \in Kids(q) => KidInv(q, p)
    BY DEF PInv
  <2>2. OwnInv(p)'
    BY <1>3, <1>6, <2>1, Zenon DEF OwnInv, Infancy, Ended
  <2>3. HoldInv(p)'
    BY <1>3, <1>6, <2>1, Zenon DEF HoldInv, Ended
  <2>4. \A q \in Proc : p \in Kids(q) => KidInv(q, p)'
    BY <1>3, <1>5, <1>6, <2>1, Zenon DEF KidInv
  <2> QED
    BY <2>2, <2>3, <2>4 DEF Fine
<1>8. Fine(d)
  <2>1. OwnInv(d) /\ HoldInv(d) /\ \A q \in Proc : d \in Kids(q) => KidInv(q, d)
    BY DEF PInv
  <2>2. OwnInv(d)'
    BY <1>1, <1>3, <1>6, <2>1, Zenon DEF OwnInv, Infancy, Ended
  <2>3. HoldInv(d)'
    BY <1>3, <1>6, <2>1, Zenon DEF HoldInv
  <2>4. \A q \in Proc : d \in Kids(q) => KidInv(q, d)'
    BY <1>1, <1>3, <1>5, <1>6, <2>1, Zenon DEF KidInv, Gone, Exiting
  <2> QED
    BY <2>2, <2>3, <2>4 DEF Fine
<1>9. CallInv(p)'
  BY <1>0, <1>1, <1>3, <1>5, <1>6, KinKept DEF CallInv
<1>10. Advance(p)
  BY <1>3, <1>6, Zenon DEF Advance, Infancy, Ended, Gone, Exiting
<1> QED
  BY <1>4, <1>5, <1>7, <1>8, <1>9, <1>10, StepKeeps

\* process_exit () lets a child of its own go, and asks nothing of it any more.
LEMMA ReleaseChildKeeps ==
  ASSUME StartsInMemory, PInv, NEW p \in Proc, ReleaseChild(p)
  PROVE  PInv'
<1>0. PICK d \in Proc : d = Child[p]
  <2>1. Child[p] \in Kids(p)
    BY Zenon DEF ReleaseChild, At, PInv, CallInv
  <2> QED
    BY <2>1, KidsAreProc, Zenon
<1>1. d \in Kids(p) /\ d # p /\ pc[d] # "unborn" /\ \A q \in Proc : d \in Kids(q) => q = p
  <2>1. d \in Kids(p)
    BY <1>0, Zenon DEF ReleaseChild, At, PInv, CallInv
  <2>2. KidInv(p, d)
    BY <2>1 DEF PInv
  <2>3. \A q \in Proc : d \in Kids(q) => q = p
    BY <2>1, Zenon DEF PInv, Kin
  <2> QED
    BY <2>1, <2>2, <2>3 DEF KidInv
<1>2. Destroy_sema' = [Destroy_sema EXCEPT ![d] = @ + 1]
  BY <1>0, <1>1 DEF ReleaseChild, sema_up, PInv, TypeOK
<1>3. PICK l \in {"next_child", "halt"} :
        /\ pc[p] = "release" /\ pc' = [pc EXCEPT ![p] = l]
        /\ UNCHANGED <<allocated, Child_list, Child, Load_sema, Exit_sema, ownVars, resultVars>>
  BY Zenon DEF ReleaseChild, Walk, At, Goto
<1> USE DEF semaVars, ownVars, resultVars
<1>4. TypeOK'
  <2>1. Destroy_sema \in [Proc -> Nat]
    BY Zenon DEF PInv, TypeOK
  <2>2. Destroy_sema' \in [Proc -> Nat]
    <3>1. Destroy_sema[d] + 1 \in Nat
      BY <2>1
    <3> QED
      BY <1>2, <2>1, <3>1
  <2> QED
    BY <1>3, <2>2, Zenon DEF PInv, TypeOK, Labels
<1>5. /\ Child_list' = Child_list
      /\ \A c \in Proc : c # p => pc'[c] = pc[c] /\ Child'[c] = Child[c]
      /\ \A c \in Proc : c # p /\ c # d => Same(c)
  BY <1>1, <1>2, <1>3, Zenon DEF PInv, TypeOK, Same, SameSemas, SameResults, SameHeld
<1>6. pc'[p] \in {"next_child", "halt"} /\ pc'[d] = pc[d] /\ Destroy_sema'[p] = Destroy_sema[p]
  BY <1>1, <1>2, <1>3, Zenon DEF PInv, TypeOK
<1>7. Fine(p)
  <2>1. OwnInv(p) /\ HoldInv(p) /\ \A q \in Proc : p \in Kids(q) => KidInv(q, p)
    BY DEF PInv
  <2>2. OwnInv(p)'
    BY <1>3, <1>6, <2>1 DEF OwnInv, Infancy, Ended
  <2>3. HoldInv(p)'
    BY <1>3, <1>6, <2>1 DEF HoldInv, Ended
  <2>4. \A q \in Proc : p \in Kids(q) => KidInv(q, p)'
    BY <1>3, <1>5, <1>6, <2>1 DEF KidInv
  <2> QED
    BY <2>2, <2>3, <2>4 DEF Fine
<1>8. Fine(d)
  <2>1. OwnInv(d) /\ HoldInv(d) /\ \A q \in Proc : d \in Kids(q) => KidInv(q, d)
    BY DEF PInv
  <2>2. OwnInv(d)'
    BY <1>1, <1>3, <1>6, <2>1, Zenon DEF OwnInv, Infancy, Ended
  <2>3. HoldInv(d)'
    BY <1>3, <1>6, <2>1, Zenon DEF HoldInv
  <2>4. \A q \in Proc : d \in Kids(q) => KidInv(q, d)'
    BY <1>1, <1>3, <1>5, <1>6, <2>1, Zenon DEF KidInv, Gone, Exiting
  <2> QED
    BY <2>2, <2>3, <2>4 DEF Fine
<1>9. CallInv(p)'
  BY <1>0, <1>1, <1>3, <1>5, <1>6, KinKept, Zenon DEF CallInv
<1>10. Advance(p)
  BY <1>3, <1>6 DEF Advance, Infancy, Ended, Gone, Exiting
<1> QED
  BY <1>4, <1>5, <1>7, <1>8, <1>9, <1>10, StepKeeps, Zenon

-----------------------------------------------------------------------------
(* The steps that change a Child_list, and process_wait ().                *)

\* thread_create () gives a new process one parent and puts it on that list only.
LEMMA ProcessExecuteKeeps ==
  ASSUME StartsInMemory, PInv, NEW p \in Proc, NEW c \in Proc, process_execute(p, c)
  PROVE  PInv'
<1>1. /\ pc[p] = "user" /\ pc[c] = "unborn" /\ p # c
      /\ pc'[c] = "start" /\ pc'[p] \in {"find", "halt"}
      /\ pc' \in [Proc -> Labels] /\ \A q \in Proc \ {p, c} : pc'[q] = pc[q]
  <2>1. pc[p] = "user" /\ pc[c] = "unborn" /\ p # c /\ pc \in [Proc -> Labels]
    BY DEF process_execute, At, PInv, TypeOK
  <2>2. PICK l \in {"find", "halt"} : pc' = [pc EXCEPT ![p] = l, ![c] = "start"]
    BY Zenon DEF process_execute
  <2> QED
    BY <2>1, <2>2 DEF Labels
<1>2. /\ allocated' = allocated \cup {c} /\ Child' = [Child EXCEPT ![p] = c]
      /\ UNCHANGED <<semaVars, ownVars, resultVars>>
  BY DEF process_execute
<1>3. \A q \in Proc : c \notin Kids(q)
  BY <1>1 DEF PInv, KidInv
<1>4. Child_list[p] \in Seq(Proc) /\ Child_list' = [Child_list EXCEPT ![p] = Append(@, c)]
  BY DEF process_execute, PInv, TypeOK
<1>5. /\ Child_list'[p] \in Seq(Proc) /\ Kids(p)' = Kids(p) \cup {c}
      /\ \A i, j \in 1 .. Len(Child_list'[p]) : Child_list'[p][i] = Child_list'[p][j] => i = j
  <2>1. Child_list'[p] = Append(Child_list[p], c)
    BY <1>4 DEF PInv, TypeOK
  <2>2. /\ c \notin ToSet(Child_list[p])
        /\ \A i, j \in 1 .. Len(Child_list[p]) : Child_list[p][i] = Child_list[p][j] => i = j
    BY <1>3 DEF PInv, Kin, Kids
  <2> QED
    BY <1>4, <2>1, <2>2, AppendElement DEF Kids
<1>6. \A q \in Proc : q # p => Child_list'[q] = Child_list[q]
  BY <1>4 DEF PInv, TypeOK
<1>7. \A q \in Proc : q # p => Kids(q)' = Kids(q)
  BY <1>6 DEF Kids
<1>8. TypeOK'
  <2>1. Child_list' \in [Proc -> Seq(Proc)]
    BY <1>4, <1>5, <1>6 DEF PInv, TypeOK
  <2>2. Child' \in [Proc -> Proc \cup {NoProc}] /\ allocated' \subseteq Proc
    BY <1>2 DEF PInv, TypeOK
  <2> QED
    BY <1>1, <1>2, <2>1, <2>2, Zenon DEF PInv, TypeOK, semaVars, ownVars, resultVars
<1>9. Kin'
  <2>1. ASSUME NEW q \in Proc
        PROVE  \A i, j \in 1 .. Len(Child_list'[q]) : Child_list'[q][i] = Child_list'[q][j] => i = j
    <3>1. CASE q = p
      BY <1>5, <3>1
    <3>2. CASE q # p
      BY <1>6, <3>2 DEF PInv, Kin
    <3> QED
      BY <3>1, <3>2
  <2>2. \A q, r \in Proc : \A d \in Kids(q)' : d \in Kids(r)' => q = r
    <3>1. \A q \in Proc : \A d : d \in Kids(q)' <=> d \in Kids(q) \/ (q = p /\ d = c)
      BY <1>5, <1>7, Zenon
    <3>2. \A q, r \in Proc : \A d \in Kids(q) : d \in Kids(r) => q = r
      BY Zenon DEF PInv, Kin
    <3>3. ASSUME NEW q \in Proc, NEW r \in Proc, NEW d, d \in Kids(q)', d \in Kids(r)' PROVE q = r
      <4>1. CASE d = c
        BY <1>3, <3>1, <3>3, <4>1, Zenon
      <4>2. CASE d # c
        BY <3>1, <3>2, <3>3, <4>2, Zenon
      <4> QED
        BY <4>1, <4>2
    <3> QED
      BY <3>3
  <2> QED
    BY <2>1, <2>2 DEF Kin
<1>10. \A q \in Proc : CallInv(q)'
  <2> SUFFICES ASSUME NEW q \in Proc PROVE CallInv(q)'
    OBVIOUS
  <2>1. CASE q = p
    BY <1>1, <1>2, <1>5, <2>1, Zenon DEF CallInv, PInv, TypeOK
  <2>2. CASE q = c
    BY <1>1, <2>2, Zenon DEF CallInv, PInv, TypeOK
  <2>3. CASE q # p /\ q # c
    <3>1. CallInv(q) /\ pc'[q] = pc[q] /\ Child'[q] = Child[q] /\ Kids(q)' = Kids(q)
      BY <1>1, <1>2, <1>7, <2>3 DEF PInv, TypeOK
    <3>2. pc[q] = "loaded" => pc'[Child[q]] \notin Infancy
      BY <1>1, <3>1, KidsAreProc, Zenon DEF CallInv, Infancy, PInv, TypeOK
    <3>3. pc[q] \in {"reap", "let_go"} => pc'[Child[q]] \in Ended /\ Child[q] # c
      <4> HAVE pc[q] \in {"reap", "let_go"}
      <4>1. Child[q] \in Proc /\ pc[Child[q]] \in Ended
        BY <3>1, KidsAreProc DEF CallInv
      <4>2. Child[q] \notin {p, c}
        BY <1>1, <4>1 DEF Ended
      <4> QED
        BY <1>1, <4>1, <4>2
    <3>4. pc[q] = "let_go" => \A r \in Proc : Child[q] \notin Kids(r)'
      BY <1>5, <1>7, <3>1, <3>3 DEF CallInv
    <3> QED
      BY <3>1, <3>2, <3>3, <3>4, Zenon DEF CallInv
  <2> QED
    BY <2>1, <2>2, <2>3
<1>11. \A d \in Proc : d # c => Fine(d)
  <2>1. \A q \in Proc : Advance(q)
    BY <1>1 DEF Advance, Infancy, Ended, Gone, Exiting
  <2>2. ASSUME NEW d \in Proc, d # c, d # p PROVE Same(d)
    BY <1>1, <1>2, <2>2, Zenon DEF Same, SameSemas, SameResults, SameHeld, semaVars, ownVars, resultVars
  <2>3. Fine(p)
    <3>1. OwnInv(p) /\ HoldInv(p) /\ \A q \in Proc : p \in Kids(q) => KidInv(q, p)
      BY DEF PInv
    <3>2. OwnInv(p)'
      BY <1>1, <1>2, <3>1, Zenon DEF OwnInv, Infancy, Ended, semaVars, ownVars, resultVars
    <3>3. HoldInv(p)'
      BY <1>1, <1>2, <3>1, Zenon DEF HoldInv, Ended, ownVars
    <3>4. ASSUME NEW q \in Proc, p \in Kids(q) PROVE KidInv(q, p)'
      <4>1. KidInv(q, p) /\ (pc'[q] \notin Gone => pc[q] \notin Gone)
        BY <2>1, <3>1, <3>4 DEF Advance
      <4> QED
        BY <1>1, <1>2, <4>1, Zenon DEF KidInv, semaVars, resultVars
    <3> QED
      BY <3>2, <3>3, <3>4 DEF Fine
  <2> QED
    BY <2>1, <2>2, <2>3, SameIsFine
<1>12. KidInv(p, c)' /\ OwnInv(c)' /\ HoldInv(c)'
  <2>1. OwnInv(c) /\ HoldInv(c)
    BY DEF PInv
  <2>2. /\ wait_result[c] = <<>> /\ exec_result[c] = "none" /\ Destroy_sema[c] = 0
        /\ Load_sema[c] = 0 /\ Exit_sema[c] = 0 /\ c # initial_thread
    BY <1>1, <2>1 DEF OwnInv, Infancy, Ended, PInv, TypeOK
  <2>3. KidInv(p, c)'
    BY <1>1, <1>2, <2>2, Zenon DEF KidInv, semaVars, resultVars
  <2>4. OwnInv(c)'
    <3>1. /\ Load_sema'[c] = 0 /\ Exit_sema'[c] = 0
          /\ exec_result'[c] = "none" /\ wait_result'[c] = <<>> /\ c \in allocated'
      BY <1>2, <2>2 DEF semaVars, resultVars
    <3>2. ~(Load_sema'[c] > 0) /\ ~(Exit_sema'[c] > 0)
      BY <3>1
    <3>3. pc'[c] # "unborn"
      BY <1>1
    <3> QED
      BY <3>1, <3>2, <3>3, Zenon DEF OwnInv
  <2>5. HoldInv(c)'
    BY <1>1 DEF HoldInv, Ended
  <2> QED
    BY <2>3, <2>4, <2>5
<1>13. \A q \in Proc : \A d \in Kids(q)' : KidInv(q, d)'
  BY <1>3, <1>5, <1>7, <1>11, <1>12, KidsAreProc DEF Fine
<1>14. \A d \in Proc : OwnInv(d)' /\ HoldInv(d)'
  BY <1>11, <1>12 DEF Fine
<1> QED
  BY <1>8, <1>9, <1>10, <1>13, <1>14 DEF PInv

\* process_wait () looks for the child it is given, on the caller's list only.
LEMMA ProcessWaitKeeps ==
  ASSUME StartsInMemory, PInv, NEW p \in Proc, NEW c \in Proc, process_wait(p, c)
  PROVE  PInv'
<1>0. PICK l \in {"await_exit", "user", "halt"}, k \in Proc \cup {NoProc} :
        /\ pc' = [pc EXCEPT ![p] = l] /\ Child' = [Child EXCEPT ![p] = k]
        /\ l = "await_exit" => k \in Kids(p)
  <2>1. CASE c \in Kids(p)
    <3>1. PICK l \in {"await_exit", "halt"} : pc' = [pc EXCEPT ![p] = l]
      BY <2>1 DEF process_wait, Walk, Goto, Kids
    <3>2. Child' = [Child EXCEPT ![p] = c]
      BY <2>1 DEF process_wait, Kids
    <3> QED
      BY <2>1, <3>1, <3>2, Zenon
  <2>2. CASE c \notin Kids(p)
    <3>1. PICK l \in {"user", "halt"} : pc' = [pc EXCEPT ![p] = l]
      BY <2>2 DEF process_wait, Walk, Goto, Kids
    <3>2. Child' = [Child EXCEPT ![p] = Child[p]] /\ Child[p] \in Proc \cup {NoProc}
      BY <2>2 DEF process_wait, Kids, PInv, TypeOK
    <3> QED
      BY <3>1, <3>2, Zenon
  <2> QED
    BY <2>1, <2>2
<1>1. pc[p] = "user" /\ UNCHANGED <<allocated, Child_list, semaVars, ownVars, resultVars>>
  BY DEF process_wait, At
<1> USE DEF semaVars, ownVars, resultVars
<1>2. TypeOK'
  BY <1>0, <1>1, Zenon DEF PInv, TypeOK, Labels
<1>3. /\ Child_list' = Child_list
      /\ \A d \in Proc : d # p => pc'[d] = pc[d] /\ Child'[d] = Child[d]
      /\ \A d \in Proc : d # p => Same(d)
  BY <1>0, <1>1, Zenon DEF PInv, TypeOK, Same, SameSemas, SameResults, SameHeld
<1>4. pc'[p] = l /\ Child'[p] = k
  BY <1>0 DEF PInv, TypeOK
<1>5. Fine(p)
  <2>1. OwnInv(p) /\ HoldInv(p) /\ \A q \in Proc : p \in Kids(q) => KidInv(q, p)
    BY DEF PInv
  <2>2. OwnInv(p)'
    BY <1>1, <1>4, <2>1, Zenon DEF OwnInv, Infancy, Ended
  <2>3. HoldInv(p)'
    BY <1>1, <1>4, <2>1, Zenon DEF HoldInv, Ended
  <2>4. \A q \in Proc : p \in Kids(q) => KidInv(q, p)'
    BY <1>1, <1>3, <1>4, <2>1 DEF KidInv
  <2> QED
    BY <2>2, <2>3, <2>4 DEF Fine
<1>6. CallInv(p)'
  BY <1>0, <1>3, <1>4, KinKept DEF CallInv
<1>7. Advance(p)
  BY <1>1, <1>4 DEF Advance, Infancy, Ended, Gone, Exiting
<1> QED
  BY <1>2, <1>3, <1>5, <1>6, <1>7, StepKeeps

\* process_wait () reads the status of a child that has ended and is still there, and
\* takes it off the list, so that it reads it once.
LEMMA ReapKeeps ==
  ASSUME StartsInMemory, PInv, NEW p \in Proc, Reap(p)
  PROVE  PInv'
<1>0. PICK c \in Proc : c = Child[p]
  BY KidsAreProc, Zenon DEF Reap, At
<1>1. /\ pc[p] = "reap" /\ pc'[p] \in {"let_go", "halt"}
      /\ pc' \in [Proc -> Labels] /\ \A q \in Proc : q # p => pc'[q] = pc[q]
      /\ UNCHANGED <<allocated, Child, semaVars, ownVars, exec_result>>
  <2>1. PICK l \in {"let_go", "halt"} : pc' = [pc EXCEPT ![p] = l]
    BY Zenon DEF Reap, Walk, Goto
  <2>2. pc[p] = "reap" /\ UNCHANGED <<allocated, Child, semaVars, ownVars, exec_result>>
    BY DEF Reap, At
  <2> QED
    BY <2>1, <2>2 DEF PInv, TypeOK, Labels
<1>2. /\ c = Child[p] /\ c \in Kids(p) /\ c # p /\ c \in allocated /\ pc[c] \in Ended
      /\ wait_result[c] = <<>>
  <2>1. CallInv(p)
    BY DEF PInv
  <2> QED
    BY <1>0, <1>1, <2>1, ChildIs DEF CallInv
<1>3. wait_result' = [wait_result EXCEPT ![c] = <<exit_status[c]>>]
  <2>1. wait_result' = [wait_result EXCEPT ![c] = Append(wait_result[c], exit_status[c])]
    BY <1>2, Zenon DEF Reap, Read
  <2>2. Append(wait_result[c], exit_status[c]) = <<exit_status[c]>>
    BY <1>2
  <2> QED
    BY <2>1, <2>2
<1>4. /\ Child_list[p] \in Seq(Proc)
      /\ \A i, j \in 1 .. Len(Child_list[p]) : Child_list[p][i] = Child_list[p][j] => i = j
  BY DEF PInv, TypeOK, Kin
<1>5. Child_list' = [Child_list EXCEPT ![p] = RemoveAt(@, Place(@, c))]
  BY <1>2, Zenon DEF Reap
<1>6. /\ Child_list'[p] \in Seq(Proc) /\ Kids(p)' = Kids(p) \ {c}
      /\ \A i, j \in 1 .. Len(Child_list'[p]) : Child_list'[p][i] = Child_list'[p][j] => i = j
  <2>1. Child_list'[p] = RemoveAt(Child_list[p], Place(Child_list[p], c))
    BY <1>5 DEF PInv, TypeOK
  <2>2. /\ Place(Child_list[p], c) \in 1 .. Len(Child_list[p])
        /\ Child_list[p][Place(Child_list[p], c)] = c
    BY <1>2, <1>4, PlaceIs DEF Kids
  <2> DEFINE r == RemoveAt(Child_list[p], Place(Child_list[p], c))
  <2>3. /\ r \in Seq(Proc)
        /\ ToSet(r) = ToSet(Child_list[p]) \ {Child_list[p][Place(Child_list[p], c)]}
        /\ \A i, j \in 1 .. Len(r) : r[i] = r[j] => i = j
    BY <1>4, <2>2, RemoveElement, Zenon
  <2> QED
    BY <2>1, <2>2, <2>3, Zenon DEF Kids
<1>7. \A q \in Proc : q # p => Child_list'[q] = Child_list[q]
  BY <1>5 DEF PInv, TypeOK
<1>8. \A q \in Proc : q # p => Kids(q)' = Kids(q)
  BY <1>7 DEF Kids
<1>9. TypeOK'
  <2>1. Child_list' \in [Proc -> Seq(Proc)]
    BY <1>5, <1>6, <1>7 DEF PInv, TypeOK
  <2>2. wait_result' \in [Proc -> Seq(Int)]
    <3>1. <<exit_status[c]>> \in Seq(Int)
      BY <1>2 DEF PInv, TypeOK
    <3> QED
      BY <1>2, <1>3, <3>1 DEF PInv, TypeOK
  <2> QED
    BY <1>1, <2>1, <2>2, Zenon DEF PInv, TypeOK, semaVars, ownVars
<1>10. Kin'
  <2>1. ASSUME NEW q \in Proc
        PROVE  \A i, j \in 1 .. Len(Child_list'[q]) : Child_list'[q][i] = Child_list'[q][j] => i = j
    <3>1. CASE q = p
      BY <1>6, <3>1
    <3>2. CASE q # p
      BY <1>7, <3>2, Zenon DEF PInv, Kin
    <3> QED
      BY <3>1, <3>2
  <2>2. \A q \in Proc : Kids(q)' \subseteq Kids(q)
    BY <1>6, <1>8
  <2>3. \A q, r \in Proc : \A d \in Kids(q) : d \in Kids(r) => q = r
    BY Zenon DEF PInv, Kin
  <2>4. \A q, r \in Proc : \A d \in Kids(q)' : d \in Kids(r)' => q = r
    BY <2>2, <2>3
  <2> QED
    BY <2>1, <2>4 DEF Kin
<1>11. \A q \in Proc : c \notin Kids(q)' /\ Kids(q)' \subseteq Kids(q)
  <2> SUFFICES ASSUME NEW q \in Proc PROVE c \notin Kids(q)' /\ Kids(q)' \subseteq Kids(q)
    OBVIOUS
  <2>1. CASE q = p
    BY <1>6, <2>1
  <2>2. CASE q # p
    <3>1. c \notin Kids(q)
      BY <1>2, <2>2 DEF PInv, Kin
    <3> QED
      BY <1>8, <2>2, <3>1
  <2> QED
    BY <2>1, <2>2
<1>12. \A q \in Proc : Advance(q)
  BY <1>1 DEF Advance, Infancy, Ended, Gone, Exiting
<1>13. \A q \in Proc : CallInv(q)'
  <2> SUFFICES ASSUME NEW q \in Proc PROVE CallInv(q)'
    OBVIOUS
  <2>1. Child'[q] = Child[q] /\ CallInv(q)
    BY <1>1, Zenon DEF PInv
  <2>2. CASE q = p
    <3>1. Child[q] = c /\ pc'[c] \in Ended
      BY <1>1, <1>2, <2>2
    <3>2. pc'[q] \in {"let_go", "halt"}
      BY <1>1, <2>2
    <3> QED
      BY <1>2, <1>11, <2>1, <3>1, <3>2, Zenon DEF CallInv
  <2>3. CASE q # p
    <3>1. pc'[q] = pc[q] /\ Kids(q)' = Kids(q)
      BY <1>1, <1>8, <2>3
    <3>2. pc[q] = "loaded" => pc'[Child[q]] \notin Infancy
      BY <1>12, <2>1, KidsAreProc, Zenon DEF CallInv, Advance
    <3>3. pc[q] \in {"reap", "let_go"} => pc'[Child[q]] \in Ended
      BY <1>12, <2>1, KidsAreProc DEF CallInv, Advance
    <3> QED
      BY <1>11, <2>1, <3>1, <3>2, <3>3, Zenon DEF CallInv
  <2> QED
    BY <2>2, <2>3
<1>14. \A d \in Proc : d # c => Fine(d)
  <2>1. ASSUME NEW d \in Proc, d # c, d # p PROVE Same(d)
    BY <1>1, <1>3, <2>1
    DEF Same, SameSemas, SameResults, SameHeld, semaVars, ownVars, PInv, TypeOK
  <2>2. Fine(p)
    <3>1. OwnInv(p) /\ HoldInv(p) /\ \A q \in Proc : p \in Kids(q) => KidInv(q, p)
      BY DEF PInv
    <3>2. wait_result'[p] = wait_result[p]
      BY <1>2, <1>3 DEF PInv, TypeOK
    <3>3. OwnInv(p)'
      BY <1>1, <3>1, <3>2, Zenon DEF OwnInv, Infancy, Ended, semaVars, ownVars
    <3>4. HoldInv(p)'
      BY <1>1, <3>1, Zenon DEF HoldInv, Ended, ownVars
    <3>5. ASSUME NEW q \in Proc, p \in Kids(q) PROVE KidInv(q, p)'
      <4>1. KidInv(q, p) /\ (pc'[q] \notin Gone => pc[q] \notin Gone)
        BY <1>12, <3>1, <3>5, Zenon DEF Advance
      <4> QED
        BY <1>1, <3>2, <4>1, Zenon DEF KidInv, semaVars
    <3> QED
      BY <3>3, <3>4, <3>5 DEF Fine
  <2> QED
    BY <1>12, <2>1, <2>2, SameIsFine
<1>15. OwnInv(c)' /\ HoldInv(c)'
  <2>1. OwnInv(c) /\ HoldInv(c) /\ pc'[c] = pc[c] /\ wait_result'[c] = <<exit_status[c]>>
    BY <1>1, <1>2, <1>3 DEF PInv, TypeOK
  <2>2. OwnInv(c)'
    BY <1>1, <1>2, <2>1, Zenon DEF OwnInv, semaVars, ownVars
  <2>3. HoldInv(c)'
    BY <1>1, <2>1, Zenon DEF HoldInv, ownVars
  <2> QED
    BY <2>2, <2>3
<1>16. \A q \in Proc : \A d \in Kids(q)' : KidInv(q, d)'
  BY <1>11, <1>14, KidsAreProc, Zenon DEF Fine
<1>17. \A d \in Proc : OwnInv(d)' /\ HoldInv(d)'
  BY <1>14, <1>15 DEF Fine
<1> QED
  BY <1>9, <1>10, <1>13, <1>16, <1>17 DEF PInv

-----------------------------------------------------------------------------
(* The theorems.                                                           *)

\* The invariant holds when main () is about to run its first program ...
LEMMA InitPInv == StartsInMemory /\ Init => PInv
<1> SUFFICES ASSUME StartsInMemory, Init PROVE PInv
  OBVIOUS
<1>1. TypeOK
  BY DEF StartsInMemory, ProcessAssumption, Init, TypeOK, Labels
<1>2. \A p \in Proc : Kids(p) = {}
  BY DEF Init, Kids, ToSet
<1>3. Kin
  BY <1>2 DEF Kin, Init
<1>4. \A p \in Proc : CallInv(p)
  BY DEF Init, CallInv
<1>5. \A c \in Proc : OwnInv(c) /\ HoldInv(c)
  BY DEF StartsInMemory, ProcessAssumption, Init, OwnInv, HoldInv, Infancy, Ended
<1> QED
  BY <1>1, <1>2, <1>3, <1>4, <1>5 DEF PInv

\* ... and every step of every process keeps it.
LEMMA NextPInv == StartsInMemory /\ PInv /\ [Next]_vars => PInv'
<1> SUFFICES ASSUME StartsInMemory, PInv, [Next]_vars PROVE PInv'
  OBVIOUS
<1>0. initial_thread \in Proc
  BY DEF StartsInMemory, ProcessAssumption
<1>1. CASE UNCHANGED vars
  <2>1. /\ Child_list' = Child_list /\ \A c \in Proc : Same(c) /\ Child'[c] = Child[c]
        /\ \A c \in Proc : Advance(c)
    BY <1>1, Zenon DEF vars, semaVars, ownVars, resultVars, Same, SameSemas, SameResults, SameHeld, Advance
  <2>2. TypeOK'
    BY <1>1 DEF vars, semaVars, ownVars, resultVars, PInv, TypeOK
  <2>3. Fine(initial_thread) /\ CallInv(initial_thread)'
    BY <1>0, <2>1, SameIsFine, CallKept, KinKept, Zenon DEF Same
  <2> QED
    BY <1>0, <2>1, <2>2, <2>3, StepKeeps, Zenon DEF Same
<1>2. ASSUME NEW p \in Proc, KernelStep(p) PROVE PInv'
  BY <1>2, FindLoadingKeeps, AwaitLoadKeeps, ExecReturnKeeps, StartProcessKeeps,
     ReportLoadKeeps, AwaitExitKeeps, ReapKeeps, LetGoKeeps, ProcessExitKeeps,
     ReleaseChildKeeps, ListNextKeeps, FreeResourcesKeeps, NotifyParentKeeps,
     AwaitReapingKeeps, ThreadExitKeeps
  DEF KernelStep
<1>3. ASSUME NEW p \in Proc, SystemCall(p) PROVE PInv'
  BY <1>3, ProcessExecuteKeeps, ProcessWaitKeeps, ExitKeeps DEF SystemCall
<1>4. ASSUME run_task PROVE PInv'
  <2>1. CASE \E c \in Proc : process_execute(initial_thread, c)
    BY <1>0, <2>1, ProcessExecuteKeeps
  <2>2. CASE process_wait(initial_thread, initial_thread)
    BY <1>0, <2>2, ProcessWaitKeeps
  <2>3. CASE exit(initial_thread)
    BY <1>0, <2>3, ExitKeeps
  <2>4. CASE \E c \in Unwaited : process_wait(initial_thread, c)
    <3>1. Unwaited \subseteq Proc
      BY <1>0, KidsAreProc DEF Unwaited, Kids
    <3> QED
      BY <1>0, <2>4, <3>1, ProcessWaitKeeps
  <2> QED
    BY <1>4, <2>1, <2>2, <2>3, <2>4 DEF run_task
<1> QED
  BY <1>1, <1>2, <1>3, <1>4 DEF Next

\* The invariant holds throughout: parents and children never lose track of each other.
THEOREM ProcessInvariance ==
  ASSUME StartsInMemory
  PROVE  Spec => []PInv
<1>1. Init => PInv
  BY InitPInv
<1>2. PInv /\ [Next]_vars => PInv'
  BY NextPInv
<1> QED
  BY <1>1, <1>2, PTL DEF Spec

\* process_execute () returns the tid exactly when the program was loaded, never before
\* that is known, however the parent and the child interleave.
THEOREM ExecAlwaysReportsLoad ==
  ASSUME StartsInMemory
  PROVE  Spec => []ExecReportsLoad
<1>1. PInv => ExecReportsLoad
  BY Zenon DEF PInv, OwnInv, ExecReportsLoad
<1> QED
  BY <1>1, ProcessInvariance, PTL

\* process_wait () returns a child's exit status once, and only the one it ended with;
\* by then the child's files are closed and its memory is free; and until its parent has
\* asked or exits, process_exit () keeps the child's struct thread.
THEOREM ChildrenAlwaysReaped ==
  ASSUME StartsInMemory
  PROVE  Spec => []ChildrenReaped
<1>1. PInv => WaitReturnsExitStatus /\ ReapedReleased
  BY Zenon DEF PInv, OwnInv, HoldInv, WaitReturnsExitStatus, ReapedReleased, Ended, Exiting
<1>2. PInv => ChildrenAllocated
  <2> SUFFICES ASSUME PInv, NEW p \in Proc, pc[p] \notin Gone, NEW c \in Kids(p)
               PROVE  c \in allocated
    BY DEF ChildrenAllocated, Kids, Gone
  <2>1. c \in Proc /\ pc[c] \notin {"unborn", "dead"}
    BY DEF PInv, KidInv
  <2> QED
    BY <2>1, Zenon DEF PInv, OwnInv
<1>3. PInv => ChildrenReaped
  BY <1>1, <1>2 DEF PInv, ChildrenReaped
<1> QED
  BY <1>3, ProcessInvariance, PTL
=============================================================================

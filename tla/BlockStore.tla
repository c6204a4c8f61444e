----------------------------- MODULE BlockStore -----------------------------
(***************************************************************************)
(* What block_read () and block_write () promise: "Internally synchronizes *)
(* accesses to block devices, so external per-block device locking is      *)
(* unneeded" (devices/block.c), and a write "returns after the block       *)
(* device has acknowledged receiving the data".  Each call takes effect at *)
(* one moment between its start and its return.  Of a block that may fail, *)
(* only this is promised: a write to it may leave it as it was, and no     *)
(* call touches another block.                                             *)
(***************************************************************************)
CONSTANTS Thread, Block, Value, NoValue,
          Failing      \* the blocks that may fail

VARIABLES
  store,    \* what each block holds
  call      \* the call a thread is in: op, block, val and whether it has taken effect

NoCall == [op |-> "none", block |-> NoValue, val |-> NoValue, done |-> FALSE]

Init ==
  /\ store \in [Block -> Value]
  /\ call = [t \in Thread |-> NoCall]

Begin(t) ==
  /\ call[t] = NoCall
  /\ \E b \in Block : \E c \in {[op |-> "read", block |-> b, val |-> NoValue, done |-> FALSE]}
       \cup [op : {"write"}, block : {b}, val : Value, done : {FALSE}] :
       call' = [call EXCEPT ![t] = c]
  /\ UNCHANGED store

Read(t) ==
  /\ call[t].op = "read" /\ ~call[t].done
  /\ call' = [call EXCEPT ![t].val = store[call[t].block], ![t].done = TRUE]
  /\ UNCHANGED store

Write(t) ==
  /\ call[t].op = "write" /\ ~call[t].done
  /\ \/ store' = [store EXCEPT ![call[t].block] = call[t].val]
     \/ call[t].block \in Failing /\ UNCHANGED store
  /\ call' = [call EXCEPT ![t].done = TRUE]

Return(t) ==
  /\ call[t].done
  /\ call' = [call EXCEPT ![t] = NoCall]
  /\ UNCHANGED store

Next == \E t \in Thread : Begin(t) \/ Read(t) \/ Write(t) \/ Return(t)

vars == <<store, call>>

Spec == Init /\ [][Next]_vars
=============================================================================

----------------------------- MODULE MCSyscall -----------------------------
(* Small instances of Syscall.                                             *)
EXTENDS Syscall, TLC

Symmetry == Permutations(Proc) \cup Permutations(File) \cup Permutations(Inode)
=============================================================================

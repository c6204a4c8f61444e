----------------------------- MODULE MCFileSys -----------------------------
(* Small instances of FileSys.                                             *)
EXTENDS FileSys, TLC

Symmetry == Permutations(Handle)
=============================================================================

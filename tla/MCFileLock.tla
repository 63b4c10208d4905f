----------------------------- MODULE MCFileLock -----------------------------
(* FileLock for TLC: the processes are interchangeable. *)
EXTENDS FileLock, TLC

Symmetry == Permutations(Proc)
=============================================================================

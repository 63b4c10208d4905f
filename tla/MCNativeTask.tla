---------------------------- MODULE MCNativeTask ----------------------------
(***************************************************************************)
(* Instances of NativeTask.                                                *)
(***************************************************************************)
EXTENDS NativeTask, TLC

Symmetry == Permutations(Procs) \cup Permutations(Messages)
=============================================================================

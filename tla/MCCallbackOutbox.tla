-------------------------- MODULE MCCallbackOutbox --------------------------
(* Instances of CallbackOutbox: process slots are interchangeable. *)
EXTENDS CallbackOutbox, TLC

Symmetry == Permutations(Procs)
=============================================================================

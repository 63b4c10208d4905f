-------------------------- MODULE MCTerminalWatch --------------------------
(***************************************************************************)
(* Instances of TerminalWatch: one or two Watches of a task.               *)
(***************************************************************************)
EXTENDS TerminalWatch, TLC

CONSTANTS p1, p2, w1, w2, c1, c2, q1, q2, a1

OneRank == w1 :> 1
TwoRanks == w1 :> 1 @@ w2 :> 2
OneController == w1 :> c1
TwoControllers == w1 :> c1 @@ w2 :> c2

Symmetry == Permutations(Procs) \cup Permutations(Questions)
=============================================================================

------------------------- MODULE MCTerminalDispatch -------------------------
(* Instances of TerminalDispatch: two Stores that share the pane. *)
EXTENDS TerminalDispatch, TLC

CONSTANTS t1, t2, t3, m1, m2, a1

TwoStores == [x \in Turns \cup Msgs |-> IF x \in {t1, t2, m1, a1} THEN 1 ELSE 2]

StoreSymmetry == Permutations({t1, t2})
=============================================================================

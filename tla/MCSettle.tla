----------------------------- MODULE MCSettle -----------------------------
(* ProcessSettle for TLC: the processes other than the first are alike.     *)
EXTENDS ProcessSettle, TLC

Alike == Permutations(Procs \ {First})
===========================================================================

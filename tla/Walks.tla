------------------------------- MODULE Walks -------------------------------
(* What the loops `while let Some(id) = current` of analyze.rs visit.       *)
EXTENDS Integers

(* x, step[x], step[step[x]] and so on: the first n of them.                *)
Walk(step, x, n) ==
    LET line[k \in 1..n] == IF k = 1 THEN x ELSE step[line[k - 1]] IN line
=============================================================================

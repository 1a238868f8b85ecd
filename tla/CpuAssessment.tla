--------------------------- MODULE CpuAssessment ----------------------------
(* doctor.rs: is a process idle although it should be busy?  Observations   *)
(* of its CPU use are labelled with the two states of a hidden Markov model, *)
(* and the lower of two modes that are far enough apart is the application's.*)
(*                                                                           *)
(* What GaussianHmm::fit makes of the observations is a parameter: a score  *)
(* (a logarithm) for each initial state, each transition and each emission, *)
(* or no model at all.                                                       *)
(* CPU use is in tenths of a core.                                           *)
EXTENDS Integers, FiniteSets, Sequences, FiniteSetsExt, Functions

States == {0, 1}
Other(path) == [t \in DOMAIN path |-> 1 - path[t]]

(* Mutant: the better predecessor is taken without its transition.          *)
Better_Blind(hmm, before, s) == IF before[1] > before[0] THEN 1 ELSE 0

(* viterbi: the better predecessor of state s, after these scores.          *)
Better(hmm, before, s) ==
    IF before[1] + hmm.transition[1][s] > before[0] + hmm.transition[0][s] THEN 1 ELSE 0

viterbi(hmm) ==
    LET n == Len(hmm.emission)
        score[t \in 1..n] ==
            [s \in States |->
                hmm.emission[t][s] +
                IF t = 1 THEN hmm.initial[s]
                ELSE LET b == Better(hmm, score[t - 1], s)
                     IN score[t - 1][b] + hmm.transition[b][s]]
        path[t \in 1..n] ==
            IF t = n THEN (IF score[n][1] > score[n][0] THEN 1 ELSE 0)
            ELSE Better(hmm, score[t], path[t + 1])
    IN path
---------------------------------------------------------------------------
(* The observations labelled s, each at its time.                           *)
Group(values, path, s) == [t \in {u \in DOMAIN values : path[u] = s} |-> values[t]]

Size(g) == Cardinality(DOMAIN g)
Squares(g) == SumFunction([t \in DOMAIN g |-> g[t] * g[t]])

(* percentile(values, 0.90) of doctor.rs: the nearest rank, counted from the *)
(* smallest.                                                                 *)
NinetiethPercentile(g) ==
    LET rank == 1 + (9 * (Size(g) - 1) + 5) \div 10
    IN Min({v \in Range(g) : Cardinality({t \in DOMAIN g : g[t] <= v}) >= rank})

(* separation.abs() >= 1.0: the means are at least twice the sum of the     *)
(* sample deviations apart.  Without division and square root: both sides   *)
(* times the product of (size * size * (size - 1)), and squared twice.      *)
Spread(g, others) ==
    (Size(g) * Squares(g) - SumFunction(g) * SumFunction(g))
    * Size(g) * others * others * (others - 1)

Separated(g, h) ==
    LET gap == SumFunction(g) * Size(h) - SumFunction(h) * Size(g)
        vg == Spread(g, Size(h))
        vh == Spread(h, Size(g))
        rest == gap * gap * (Size(g) - 1) * (Size(h) - 1) - 4 * (vg + vh)
    IN rest >= 0 /\ rest * rest >= 64 * vg * vh

Performance(idle) == IF idle THEN "performance" ELSE "none"

(* The group with the lower mean.                                            *)
Application(g, h) ==
    IF SumFunction(g) * Size(h) < SumFunction(h) * Size(g) THEN g ELSE h

NoModel == <<>>

(* assess_cpu, for the states a labelling gives.                            *)
assess_cpu(values, path) ==
    LET g == Group(values, path, 0)
        h == Group(values, path, 1)
    IN IF Len(values) < 4 \/ path = NoModel THEN "data"
       ELSE IF Size(g) <= 1 \/ Size(h) <= 1 THEN Performance(NinetiethPercentile(values) < 9)
       ELSE IF ~Separated(g, h) THEN Performance(NinetiethPercentile(values) < 9)
       ELSE Performance(NinetiethPercentile(Application(g, h)) < 9)
---------------------------------------------------------------------------
Score(hmm, path) ==
    hmm.initial[path[1]]
    + SumFunction([t \in DOMAIN path |->
          hmm.emission[t][path[t]]
          + IF t = 1 THEN 0 ELSE hmm.transition[path[t - 1]][path[t]]])

(* The labellings than which none is more probable; there may be several.   *)
Best(hmm, labellings) ==
    {q \in labellings : \A r \in labellings : Score(hmm, r) <= Score(hmm, q)}

(* The same model, its states' names exchanged.                             *)
Renumbered(hmm) ==
    LET Exchanged(scores) == [s \in States |-> scores[1 - s]]
    IN [initial |-> Exchanged(hmm.initial),
        transition |-> [s \in States |-> Exchanged(hmm.transition[1 - s])],
        emission |-> [t \in DOMAIN hmm.emission |-> Exchanged(hmm.emission[t])]]

(* viterbi returns a labelling than which none is more probable, and the    *)
(* verdict is that of such a labelling also when the model's states have    *)
(* the other numbers: so the numbering can only change the verdict where    *)
(* equally probable labellings differ in it (viterbi then prefers state 0). *)
AssessmentHolds(values, hmm) ==
    LET path == viterbi(hmm)
        best == Best(hmm, [DOMAIN path -> States])
    IN /\ path \in best
       /\ assess_cpu(values, viterbi(Renumbered(hmm)))
             \in {assess_cpu(values, q) : q \in best}
=============================================================================

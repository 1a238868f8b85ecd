----------------------------- MODULE MCAnalysis -----------------------------
(* Streams for TLC, and the pure parts of the analysis and of compare over  *)
(* small inputs: each input is an initial state of its own, in which the    *)
(* streams stay empty.                                                       *)
EXTENDS Streams, Analysis, TLC

CONSTANTS
    LargestProfile,         \* in nodes
    MaxTicks                \* timers that fire, of samples and of flushes

IsolatesAlike == Permutations(Isolates)
None == [kind |-> "none"]
---------------------------------------------------------------------------
(* Trees of nodes, a node's parent before it; two call frames, so that some *)
(* recur, which may be mapped to one frame or have one label; samples of    *)
(* any node and of one that is not there.                                    *)
Calls == {"f", "g"}
Names == {[c \in Calls |-> c], [c \in Calls |-> "h"]}
Trees(n) == {[m \in 1..n |-> {k \in 2..n : up[k] = m}] :
                up \in {u \in [2..n -> 1..n] : \A k \in 2..n : u[k] < k}}

CpuProfiles ==
    UNION {[kind : {"cpu"}, call : [1..n -> Calls], mapped : Names, label : Names, children : Trees(n),
            samples : UNION {[1..k -> 1..n + 1] : k \in 0..2},
            deltas : {<<>>, <<3>>, <<5, 2>>, <<-1, 4>>}] : n \in 1..LargestProfile}

HeapProfiles ==
    UNION {[kind : {"heap"}, call : [1..n -> Calls], mapped : Names, children : Trees(n),
            size : [1..n -> {0, 1, 3}]] : n \in 1..LargestProfile}

Verdicts == {<<9, 9, 9, 9>>, <<8, 8, 10, 10>>, <<1, 2, 20, 20>>,
             <<20, 1, 19, 2>>, <<9, 20, 1, 12>>}
Models(scores) ==
    [initial : {[s \in {0, 1} |-> 0], [s \in {0, 1} |-> -s]},
     transition : [{0, 1} -> [{0, 1} -> scores]],
     emission : [1..4 -> {[s \in {0, 1} |-> s], [s \in {0, 1} |-> -s]}]]
Assessments ==
    {[kind |-> "doctor", values |-> v, hmm |-> m] : v \in Verdicts, m \in Models({0})}
    \cup {[kind |-> "doctor", values |-> <<1, 2, 20, 20>>, hmm |-> m] : m \in Models({-2, 0})}

Run(finished, partial, mode, collectors, whole, env, same, metrics) ==
    [finished |-> finished, partial |-> partial, mode |-> mode, collectors |-> collectors,
     whole |-> whole, env |-> env, schema |-> same, sameId |-> same, metrics |-> metrics]
Good(x) == Run(TRUE, FALSE, "cpu", {"telemetry"}, {"telemetry"}, "node22", TRUE,
               [m \in Metrics |-> x])
Collectors == {{"telemetry"}, {"telemetry", "cpu"}, {"cpu"}}
Runs == {Run(f, p, o, c, w, e, s, [m \in Metrics |-> 1]) :
            f \in BOOLEAN, p \in BOOLEAN, o \in {"cpu", "all"},
            c \in Collectors, w \in Collectors, e \in {"missing", "node20", "node22"}, s \in BOOLEAN}
BudgetFiles(names) ==
    UNION {[N -> [max : {{}, {1}}, regression : {{}, {-1}, {0}, {50}}]] : N \in SUBSET names}

Comparisons ==
    {[kind |-> "compare", a |-> Good(x), b |-> Good(y), budgets |-> u] :
        x \in {-4, -1, 0, 1, 2, 4}, y \in {-4, -1, 0, 1, 2, 4},
        u \in BudgetFiles({"heap_growth_bytes"})}
    \cup
    {[kind |-> "compare", a |-> Run(TRUE, FALSE, "cpu", c, c, e, TRUE, [m \in Metrics |-> 1]), b |-> r,
      budgets |-> [m \in {name} |-> [max |-> {}, regression |-> {0}]]] :
        c \in Collectors, e \in {"missing", "node22"}, r \in Runs,
        name \in {"rss_max_bytes", "typo"}}

MCInputs == CpuProfiles \cup HeapProfiles \cup Assessments \cup Comparisons
---------------------------------------------------------------------------
(* What an isolate has buffered concerns nobody before it is flushed; and   *)
(* its last records go to two files, so that what others write to either in *)
(* between they could as well write before or after all of them.  There the *)
(* isolate goes on alone, or never again.                                    *)
Hurries(i) ==
    probe[i].buffer # <<>> \/ probe[i].stage \in {"sampled", "summed"}
        => \A j \in Isolates \ {i} : probe'[j] = probe[j]

TicksBounded == SumFunction([i \in Isolates |-> probe'[i].ticks]) <= MaxTicks

(* Two isolates share all turns but one, timers included.  The last is for  *)
(* an isolate that has had all the others and no timer: it is what goes past *)
(* the maximum of events.                                                    *)
LastTurnAlone ==
    SumFunction([i \in Isolates |-> probe'[i].happened + probe'[i].ticks]) = MaxTurns
        => \E i \in Isolates : probe'[i].happened = MaxTurns

MCInit == Init /\ input \in {None} \cup Inputs
MCNext ==
    /\ input = None /\ UNCHANGED input
    /\ Next /\ TicksBounded /\ LastTurnAlone /\ \A i \in Isolates : Hurries(i)
MCSpec == MCInit /\ [][MCNext]_<<vars, input>>
=============================================================================

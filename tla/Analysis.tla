------------------------------ MODULE Analysis ------------------------------
(* The parts of the analysis and of compare that are functions of one input, *)
(* each over the inputs it may be given.                                     *)
EXTENDS Profiles, CpuAssessment, Budgets

CONSTANT Inputs

VARIABLE input

(* A profile has no node below two others, or below itself: there is a      *)
(* depth that grows from a node to its children.  It may have many roots.    *)
Tree(p) ==
    /\ IsFiniteSet(Nodes(p)) /\ Nodes(p) \subseteq Nat \ {0}
    /\ p.children \in [Nodes(p) -> SUBSET Nodes(p)]
    /\ \A m, n \in Nodes(p) : m # n => p.children[m] \cap p.children[n] = {}
    /\ \E depth \in [Nodes(p) -> 1..Cardinality(Nodes(p))] :
          \A m \in Nodes(p) : \A n \in p.children[m] : depth[m] < depth[n]

(* The samples may be of nodes that are not there.                           *)
CpuProfile(x) ==
    x.kind = "cpu" /\ Tree(x) /\ x.samples \in Seq(Nat \ {0}) /\ x.deltas \in Seq(Int)

HeapProfile(x) ==
    x.kind = "heap" /\ Tree(x) /\ x.size \in [Nodes(x) -> Nat]

(* Observations, and any model that may have been fitted to them.           *)
Assessment(x) ==
    LET scores == [States -> Int]
    IN /\ x.kind = "doctor"
       /\ x.values \in Seq(Int) /\ x.values # <<>>
       /\ x.hmm.emission \in Seq(scores) /\ Len(x.hmm.emission) = Len(x.values)
       /\ x.hmm.initial \in scores /\ x.hmm.transition \in [States -> scores]

(* Two runs' summaries and a budget file.                                    *)
Comparison(x) ==
    /\ x.kind = "compare"
    /\ \A run \in {x.a, x.b} : /\ run.finished \in BOOLEAN /\ run.partial \in BOOLEAN
                               /\ run.metrics \in [DOMAIN run.metrics -> Int]
    /\ \A name \in DOMAIN x.budgets :
          x.budgets[name].max \subseteq Int /\ x.budgets[name].regression \subseteq Int

ASSUME InputsAssumption ==
    \A x \in Inputs : CpuProfile(x) \/ HeapProfile(x) \/ Assessment(x) \/ Comparison(x)
---------------------------------------------------------------------------
(* CPU time and allocations are attributed to frames as Profiles says.      *)
ProfilesAttributed ==
    /\ input.kind = "cpu" => CpuAttributed(input)
    /\ input.kind = "heap" => HeapAttributed(input)

(* The CPU assessment rests on a most probable labelling, however the two   *)
(* states are numbered.                                                      *)
AssessmentSound ==
    input.kind = "doctor" => AssessmentHolds(input.values, input.hmm)

(* compare's exit code says what GateHolds of Budgets says it does.         *)
GateSound == input.kind = "compare" => GateHolds(input.a, input.b, input.budgets)
=============================================================================

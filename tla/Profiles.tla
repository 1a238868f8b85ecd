------------------------------ MODULE Profiles ------------------------------
(* What analyze.rs computes from V8's CPU and heap profiles.                *)
(*                                                                           *)
(* A profile is a tree: nodes 1..n with V8's call frame and children each.  *)
(* Of a CPU profile it has samples (the node on top) and the microseconds   *)
(* between them; of a heap profile a size for each node.  What the source   *)
(* maps and the names of the scripts make of a call frame comes with it:    *)
(* mapped_frame gives its function, url and line, flame_label the text of a *)
(* flame graph.  Either may give the same for different call frames.        *)
EXTENDS Integers, FiniteSets, Sequences, FiniteSetsExt, Functions, Walks

CONSTANT HotspotLimit       \* 50

ASSUME ProfilesAssumption == HotspotLimit \in Nat \ {0}

Nodes(p) == DOMAIN p.call
Frame(p, n) == p.mapped[p.call[n]]
Label(p, n) == p.label[p.call[n]]
Frames(p) == {Frame(p, n) : n \in Nodes(p)}

(* The map `parents`: the last node to name a child wins; 0 for the root.   *)
Caller(p, n) == Max({0} \cup {m \in Nodes(p) : n \in p.children[m]})

(* The nodes from a sample to the root; a node that comes again would end   *)
(* them.  Only the sample itself may be unknown, and then has no frame.      *)
Stack(p, sample) ==
    LET parents == [n \in {0, sample} \cup Nodes(p) |-> IF n = 0 THEN 0 ELSE Caller(p, n)]
        line == Walk(parents, sample, Cardinality(Nodes(p)) + 2)
        Stops(k) == line[k] = 0 \/ \E j \in 1..k - 1 : line[j] = line[k]
        length == Min({k \in DOMAIN line : Stops(k)}) - 1
        nodes == [k \in 1..length |-> line[k]]
    IN IF sample \in Nodes(p) THEN nodes ELSE Tail(nodes)

(* A sample without a time delta counts for one millisecond.                *)
Delta(p, k) == IF k \in DOMAIN p.deltas THEN p.deltas[k] ELSE 1000
---------------------------------------------------------------------------
(* analyze_cpu_profiles.                                                     *)
SelfValue(p, frame) ==
    SumFunction([k \in {j \in DOMAIN p.samples :
                          p.samples[j] \in Nodes(p) /\ Frame(p, p.samples[j]) = frame} |->
                     Delta(p, k)])

(* Mutant: without seen_frames.                                              *)
TotalValue_EachNode(p, frame) ==
    SumFunction([at \in {x \in (DOMAIN p.samples) \X Nodes(p) :
                            LET stack == Stack(p, p.samples[x[1]])
                            IN x[2] <= Len(stack) /\ Frame(p, stack[x[2]]) = frame} |->
                     Delta(p, at[1])])

(* Each frame once, however often it is on the stack.                       *)
TotalValue(p, frame) ==
    SumFunction([k \in {j \in DOMAIN p.samples :
                          \E n \in Range(Stack(p, p.samples[j])) : Frame(p, n) = frame} |->
                     Delta(p, k)])

(* sort_by, the largest first, and truncate: the frames that may be left.   *)
(* They come out of a HashMap, so any of several equal ones may be cut.     *)
Above(x, y) == x[1] > y[1] \/ (x[1] = y[1] /\ x[2] > y[2])

Kept(frames, value) ==
    {H \in SUBSET frames :
        /\ Cardinality(H) = IF Cardinality(frames) < HotspotLimit
                            THEN Cardinality(frames) ELSE HotspotLimit
        /\ \A f \in H, g \in frames \ H : ~Above(value[g], value[f])}

Hotspots(p) ==
    Kept({f \in Frames(p) : TotalValue(p, f) > 0},
         [f \in Frames(p) |-> <<TotalValue(p, f), SelfValue(p, f)>>])

(* render_cpu_flamegraph: weights by stack, root first; a sample weighs a   *)
(* microsecond at least, and one of an unknown node is left out.             *)
Flame(p, k) ==
    LET nodes == Stack(p, p.samples[k])
    IN [j \in DOMAIN nodes |-> Label(p, nodes[Len(nodes) + 1 - j])]

Folded(p) ==
    [stack \in {Flame(p, k) : k \in DOMAIN p.samples} \ {<<>>} |->
        SumFunction([k \in {j \in DOMAIN p.samples : Flame(p, j) = stack} |->
                         Max({1, Delta(p, k)})])]
---------------------------------------------------------------------------
(* analyze_heap_profiles.  aggregate_heap adds up subtrees.                 *)
HeapSelf(p, frame) ==
    SumFunctionOnSet(p.size, {n \in Nodes(p) : Frame(p, n) = frame})

HeapTotal(p, frame) ==
    LET total[n \in Nodes(p)] ==
            p.size[n] + SumFunction([c \in p.children[n] |-> total[c]])
    IN SumFunctionOnSet(total, {n \in Nodes(p) : Frame(p, n) = frame})

HeapHotspots(p) ==
    Kept({f \in Frames(p) : HeapSelf(p, f) > 0},
         [f \in Frames(p) |-> <<HeapSelf(p, f), 0>>])
---------------------------------------------------------------------------
(* The definitions they are held against: what a node's subtree holds.      *)
Below(p, n) ==
    LET size == Cardinality(Nodes(p))
        grown == [S \in SUBSET Nodes(p) |-> S \cup UNION {p.children[m] : m \in S}]
    IN Walk(grown, {n}, size)[size]

Under(p, frame) == UNION {Below(p, n) : n \in {m \in Nodes(p) : Frame(p, m) = frame}}

Nested(p, frame) ==
    \E n \in Nodes(p), m \in Nodes(p) :
        n # m /\ Frame(p, n) = frame /\ Frame(p, m) = frame /\ m \in Below(p, n)

(* The labels of a frame, whether they are no other frame's, and the weight *)
(* of the flame graph's stacks that have one.                                *)
LabelsOf(p, f) == {Label(p, n) : n \in {m \in Nodes(p) : Frame(p, m) = f}}
OwnLabels(p, f) == \A n \in Nodes(p) : Label(p, n) \in LabelsOf(p, f) => Frame(p, n) = f

FlameValue(p, f) ==
    SumFunctionOnSet(Folded(p), {s \in DOMAIN Folded(p) : Range(s) \cap LabelsOf(p, f) # {}})

(* A frame f is missing in a list of hotspots only for a full list of       *)
(* frames that have no less.                                                 *)
CutForLarger(f, H, value) ==
    f \in H \/ (Cardinality(H) = HotspotLimit /\ \A g \in H : value[g] >= value[f])

(* A frame's total is the time in which it, recursive or not, was on the    *)
(* stack; self time is attributed once, is within the total, and is missing *)
(* in the hotspots only for as many frames as are listed that were on the   *)
(* stack as long.  The flame graph, computed separately, shows no less of a *)
(* frame, and more only where the frame's labels are another's, too.        *)
CpuAttributed(p) ==
    LET known == {k \in DOMAIN p.samples : p.samples[k] \in Nodes(p)}
        Positive == \A k \in known : Delta(p, k) >= 1
        total == [f \in Frames(p) |-> TotalValue(p, f)]
    IN /\ \A f \in Frames(p) :
             TotalValue(p, f) = SumFunction([k \in {j \in known : p.samples[j] \in Under(p, f)} |->
                                                 Delta(p, k)])
       /\ SumFunction([f \in Frames(p) |-> SelfValue(p, f)])
          = SumFunction([k \in known |-> Delta(p, k)])
       /\ Positive => \A f \in Frames(p) :
             /\ SelfValue(p, f) <= TotalValue(p, f)
             /\ TotalValue(p, f) <= FlameValue(p, f)
             /\ OwnLabels(p, f) => TotalValue(p, f) = FlameValue(p, f)
             /\ SelfValue(p, f) > 0 => \A H \in Hotspots(p) : CutForLarger(f, H, total)

(* Allocations are attributed once as a frame's own, and those are missing  *)
(* in the hotspots only for a full list of frames that allocated no less.   *)
(* A frame's total is what was allocated under it, and more than that only  *)
(* when the frame called itself: unlike CPU time, what a recursive frame    *)
(* allocated is counted at every level of the recursion.                    *)
HeapAttributed(p) ==
    LET self == [f \in Frames(p) |-> HeapSelf(p, f)]
    IN /\ SumFunction(self) = SumFunction(p.size)
       /\ \A f \in Frames(p) :
             LET under == SumFunctionOnSet(p.size, Under(p, f))
             IN /\ HeapSelf(p, f) <= under /\ under <= HeapTotal(p, f)
                /\ HeapTotal(p, f) > under => Nested(p, f)
                /\ HeapSelf(p, f) > 0 => \A H \in HeapHotspots(p) : CutForLarger(f, H, self)
=============================================================================

--------------------------- MODULE AnalysisProofs ---------------------------
(* What the pure parts of the analysis and of compare compute, for every    *)
(* input: profiles of any size, observations of any number, any budgets.    *)
EXTENDS Analysis, DataLemmas, SequenceTheorems
---------------------------------------------------------------------------
(* Trees.                                                                    *)
Deepens(p, depth) ==
    /\ depth \in [Nodes(p) -> Nat]
    /\ \A m \in Nodes(p) : \A n \in p.children[m] : depth[m] < depth[n]

(* What makes a profile a tree, part by part.                               *)
LEMMA TreeDeepens ==
    ASSUME NEW p, Tree(p)
    PROVE  /\ IsFiniteSet(Nodes(p)) /\ Nodes(p) \subseteq Nat \ {0}
           /\ \A m \in Nodes(p) : p.children[m] \subseteq Nodes(p)
           /\ \A m, n \in Nodes(p) : m # n => p.children[m] \cap p.children[n] = {}
           /\ \E depth : Deepens(p, depth)
<1>1. PICK depth \in [Nodes(p) -> 1..Cardinality(Nodes(p))] :
          \A m \in Nodes(p) : \A n \in p.children[m] : depth[m] < depth[n]
  BY DEF Tree
<1>2. 1..Cardinality(Nodes(p)) \subseteq Nat
  OBVIOUS
<1>3. Deepens(p, depth)
  BY <1>1, <1>2 DEF Deepens
<1> QED
  BY <1>3 DEF Tree

(* The node that names another as its child is that other's caller.         *)
LEMMA CallerIs ==
    ASSUME NEW p, Tree(p), NEW s
    PROVE  /\ Caller(p, s) \in {0} \cup Nodes(p)
           /\ \A m \in Nodes(p) : s \in p.children[m] <=> Caller(p, s) = m
<1> DEFINE A == {m \in Nodes(p) : s \in p.children[m]}
           B == {0} \cup A
<1>1. B \in SUBSET Int /\ IsFiniteSet(B) /\ B # {} /\ A \subseteq Nodes(p) /\ 0 \notin A
  <2>1. IsFiniteSet(A) /\ A \subseteq Nat \ {0}
    BY FS_Subset, TreeDeepens
  <2>2. IsFiniteSet({0})
    BY FS_Singleton
  <2>3. IsFiniteSet(B)
    BY <2>1, <2>2, FS_Union
  <2> QED
    BY <2>1, <2>3
<1>2. \A m, n \in A : m = n
  BY TreeDeepens
<1>3. A \subseteq Nat \ {0}
  BY <1>1, TreeDeepens
<1>4. Caller(p, s) = Max(B)
  BY DEF Caller
<1> HIDE DEF A
<1>5. Max(B) \in B /\ \A x \in B : x <= Max(B)
  BY <1>1, Greatest
<1>6. \A m \in A : Max(B) = m
  <2>1. ASSUME NEW m \in A PROVE Max(B) = m
    <3>1. m \in Nat \ {0} /\ m <= Max(B) /\ Max(B) \in B
      BY <1>3, <1>5
    <3>2. Max(B) # 0
      BY <3>1
    <3>3. Max(B) \in A
      BY <3>1, <3>2
    <3> QED
      BY <1>2, <3>3
  <2> QED
    BY <2>1
<1>7. \A m \in Nodes(p) : Max(B) = m => m \in A
  BY <1>5, TreeDeepens
<1> QED
  BY <1>1, <1>4, <1>5, <1>6, <1>7 DEF A

Closed(p, C) == \A m \in C : p.children[m] \subseteq C

(* What is below a node is the least set with it and with its nodes'        *)
(* children.                                                                 *)
IsBelow(p, n, B) ==
    /\ B \in SUBSET Nodes(p) /\ n \in B /\ Closed(p, B)
    /\ \A C \in SUBSET Nodes(p) : n \in C /\ Closed(p, C) => B \subseteq C

(* Below, computed level by level, is the subtree: the least set that has   *)
(* the node and the children of what it has.                                *)
LEMMA BelowIs ==
    ASSUME NEW p, Tree(p), NEW n \in Nodes(p)
    PROVE  IsBelow(p, n, Below(p, n))
<1> DEFINE S == Nodes(p)
           size == Cardinality(S)
           grown == [A \in SUBSET S |-> A \cup UNION {p.children[m] : m \in A}]
           x == {n}
           line == Walk(grown, x, size)
<1>1. /\ IsFiniteSet(S) /\ n \in S /\ \A m \in S : p.children[m] \subseteq S
  BY TreeDeepens
<1>2. size \in Nat /\ size # 0
  BY <1>1, FS_CardinalityType, FS_EmptySet
<1>3. /\ DOMAIN grown = SUBSET S /\ x \in SUBSET S
      /\ \A A \in SUBSET S : /\ grown[A] \in SUBSET S /\ A \subseteq grown[A]
                             /\ (grown[A] = A <=> Closed(p, A))
                             /\ \A C : A \subseteq C /\ Closed(p, C) => grown[A] \subseteq C
  <2>1. ASSUME NEW A \in SUBSET S
        PROVE  /\ grown[A] = A \cup UNION {p.children[m] : m \in A}
               /\ grown[A] \in SUBSET S
    BY <1>1
  <2>2. ASSUME NEW A \in SUBSET S
        PROVE  /\ (grown[A] = A <=> Closed(p, A))
               /\ \A C : A \subseteq C /\ Closed(p, C) => grown[A] \subseteq C
    BY <2>1 DEF Closed
  <2> QED
    BY <1>1, <2>1, <2>2
<1>4. Below(p, n) = line[size]
  BY DEF Below
<1> HIDE DEF S, size, grown, x
<1>5. Visits(grown, x, size, line)
  BY <1>2, <1>3, WalkSteps
<1>6. /\ line[1] = x
      /\ \A k \in 1..size : line[k] \in SUBSET S
      /\ \A k \in 1..size : k # size => line[k + 1] = grown[line[k]]
  BY <1>3, <1>5 DEF Visits
<1> HIDE DEF line
<1> DEFINE Fine(B) == n \in B /\ \A C \in SUBSET S : n \in C /\ Closed(p, C) => B \subseteq C
           T == {k \in Nat : k \in 1..size =>
                    Fine(line[k]) /\ (Cardinality(line[k]) >= k \/ Closed(p, line[k]))}
<1>7. 0 \in T
  OBVIOUS
<1>8. ASSUME NEW k \in Nat, k \in T PROVE k + 1 \in T
  <2> SUFFICES ASSUME k + 1 \in 1..size
               PROVE  /\ Fine(line[k + 1])
                      /\ Cardinality(line[k + 1]) >= k + 1 \/ Closed(p, line[k + 1])
    OBVIOUS
  <2>1. CASE k = 0
    <3>1. line[k + 1] = {n}
      BY <1>6, <2>1 DEF x
    <3>2. Cardinality({n}) = 1
      BY FS_Singleton
    <3> QED
      BY <2>1, <3>1, <3>2
  <2>2. CASE k # 0
    <3>1. k \in 1..size /\ k # size
      BY <1>2, <2>2
    <3> DEFINE A == line[k]
               B == line[k + 1]
    <3>2. A \in SUBSET S /\ B = grown[A] /\ Fine(A)
      BY <1>6, <1>8, <3>1
    <3>3. Cardinality(A) >= k \/ Closed(p, A)
      BY <1>8, <3>1
    <3> HIDE DEF A, B
    <3>4. Fine(B)
      BY <1>3, <3>2
    <3>5. CASE Closed(p, A)
      BY <1>3, <3>2, <3>4, <3>5 DEF B
    <3>6. CASE ~Closed(p, A)
      <4>1. A \subseteq B /\ B # A /\ IsFiniteSet(B) /\ B \in SUBSET S
        BY <1>1, <1>3, <3>2, <3>6, FS_Subset
      <4>2. Cardinality(A) <= Cardinality(B) /\ Cardinality(A) # Cardinality(B)
        BY <4>1, FS_Subset
      <4>3. Cardinality(A) \in Nat /\ Cardinality(B) \in Nat
        BY <4>1, FS_Subset, FS_CardinalityType
      <4>4. Cardinality(B) >= k + 1
        BY <3>3, <3>6, <4>2, <4>3
      <4> QED
        BY <3>4, <4>4 DEF B
    <3> QED
      BY <3>5, <3>6
  <2> QED
    BY <2>1, <2>2
<1>9. size \in T
  <2> HIDE DEF T
  <2> QED
    BY <1>2, <1>7, <1>8, NatInductive
<1>10. size \in 1..size
  BY <1>2
<1> DEFINE B == line[size]
<1>11. B \in SUBSET S /\ Fine(B) /\ (Cardinality(B) >= size \/ Closed(p, B))
  BY <1>6, <1>9, <1>10
<1> HIDE DEF B
<1>12. Closed(p, B)
  <2>1. CASE Cardinality(B) >= size
    <3>1. Cardinality(B) <= size /\ Cardinality(B) \in Nat
      BY <1>1, <1>11, FS_Subset, FS_CardinalityType DEF size
    <3>2. Cardinality(B) = size
      BY <1>2, <2>1, <3>1
    <3>3. B = S
      BY <1>1, <1>11, <3>2, FS_Subset DEF size
    <3> QED
      BY <1>1, <3>3 DEF Closed
  <2> QED
    BY <1>11, <2>1
<1> QED
  BY <1>4, <1>11, <1>12 DEF IsBelow, B, S

(* Below a node come, with each node, those below it; and, but for itself,  *)
(* the one that called it.                                                   *)
LEMMA BelowOrder ==
    ASSUME NEW p, Tree(p), NEW n \in Nodes(p)
    PROVE  /\ Below(p, n) \subseteq Nodes(p) /\ n \in Below(p, n) /\ Closed(p, Below(p, n))
           /\ \A s \in Below(p, n) : Below(p, s) \subseteq Below(p, n)
           /\ \A s \in Below(p, n) : s # n => Caller(p, s) \in Below(p, n)
           /\ \A depth : Deepens(p, depth) =>
                 \A s \in Below(p, n) : s = n \/ depth[n] < depth[s]
<1> DEFINE B == Below(p, n)
<1>1. IsBelow(p, n, B)
  BY BelowIs
<1>2. /\ B \in SUBSET Nodes(p) /\ n \in B /\ Closed(p, B)
      /\ \A C \in SUBSET Nodes(p) : n \in C /\ Closed(p, C) => B \subseteq C
  BY <1>1 DEF IsBelow
<1> HIDE DEF B
<1>3. \A m \in Nodes(p) : p.children[m] \subseteq Nodes(p)
  BY TreeDeepens
<1>4. ASSUME NEW s \in B PROVE Below(p, s) \subseteq B
  <2>1. s \in Nodes(p)
    BY <1>2
  <2>2. IsBelow(p, s, Below(p, s))
    BY <2>1, BelowIs
  <2> QED
    BY <1>2, <2>2 DEF IsBelow
<1>5. ASSUME NEW s \in B, s # n PROVE Caller(p, s) \in B
  <2> DEFINE C == {m \in B : m = n \/ Caller(p, m) \in B}
  <2>1. ASSUME NEW m \in C, NEW c \in p.children[m] PROVE c \in C
    <3>1. m \in Nodes(p) /\ c \in B /\ m \in B
      BY <1>2 DEF Closed
    <3>2. Caller(p, c) = m
      BY <3>1, CallerIs
    <3> QED
      BY <3>1, <3>2
  <2>2. n \in C /\ C \in SUBSET Nodes(p) /\ Closed(p, C)
    BY <1>2, <2>1 DEF Closed
  <2>3. B \subseteq C
    <3> HIDE DEF C
    <3> QED
      BY <1>2, <2>2
  <2> QED
    BY <1>5, <2>3
<1>6. ASSUME NEW depth, Deepens(p, depth), NEW s \in B PROVE s = n \/ depth[n] < depth[s]
  <2> DEFINE C == {m \in Nodes(p) : m = n \/ depth[n] < depth[m]}
  <2>1. ASSUME NEW m \in C, NEW c \in p.children[m] PROVE c \in C
    <3>1. c \in Nodes(p) /\ depth[m] < depth[c]
      BY <1>3, <1>6 DEF Deepens
    <3>2. depth[m] \in Nat /\ depth[c] \in Nat /\ depth[n] \in Nat
      BY <1>6, <3>1 DEF Deepens
    <3> QED
      BY <3>1, <3>2
  <2>2. n \in C /\ C \in SUBSET Nodes(p) /\ Closed(p, C)
    BY <2>1 DEF Closed
  <2>3. B \subseteq C
    <3> HIDE DEF C
    <3> QED
      BY <1>2, <2>2
  <2> QED
    BY <2>3
<1> QED
  BY <1>2, <1>4, <1>5, <1>6 DEF B

(* Of two nodes with a third below them, one is below the other.            *)
LEMMA BelowChain ==
    ASSUME NEW p, Tree(p), NEW n \in Nodes(p), NEW m \in Nodes(p),
           NEW s \in Below(p, n) \cap Below(p, m)
    PROVE  n \in Below(p, m) \/ m \in Below(p, n)
<1> DEFINE B == Below(p, n)
           D == Below(p, m)
           C == {t \in B : t \in D => n \in D \/ m \in B}
<1>1. /\ IsBelow(p, n, B) /\ B \subseteq Nodes(p) /\ n \in B /\ Closed(p, B)
      /\ \A t \in D : t # m => Caller(p, t) \in D
  BY BelowIs, BelowOrder
<1> HIDE DEF B, D
<1>2. ASSUME NEW t \in C, NEW c \in p.children[t] PROVE c \in C
  <2>1. t \in Nodes(p) /\ c \in B /\ t \in B
    BY <1>1 DEF Closed
  <2>2. Caller(p, c) = t
    BY <2>1, CallerIs
  <2> QED
    BY <1>1, <2>1, <2>2
<1>3. n \in C /\ C \in SUBSET Nodes(p) /\ Closed(p, C)
  BY <1>1, <1>2 DEF Closed
<1> HIDE DEF C
<1>4. B \subseteq C
  BY <1>1, <1>3 DEF IsBelow
<1> QED
  BY <1>4 DEF B, C, D

(* A node's subtree is the node and the subtrees of its children.           *)
LEMMA BelowSplits ==
    ASSUME NEW p, Tree(p), NEW n \in Nodes(p)
    PROVE  /\ Below(p, n) = {n} \cup UNION {Below(p, c) : c \in p.children[n]}
           /\ \A c \in p.children[n] : n \notin Below(p, c)
           /\ \A c, d \in p.children[n] : c # d => Below(p, c) \cap Below(p, d) = {}
<1> DEFINE C == {n} \cup UNION {Below(p, c) : c \in p.children[n]}
<1>1. IsBelow(p, n, Below(p, n)) /\ Closed(p, Below(p, n)) /\ n \in Below(p, n)
  BY BelowIs, BelowOrder
<1>2. p.children[n] \subseteq Nodes(p)
  BY TreeDeepens
<1>3. \A c \in p.children[n] : /\ Below(p, c) \subseteq Nodes(p) /\ c \in Below(p, c)
                               /\ Closed(p, Below(p, c))
  BY <1>2, BelowOrder
<1>4. C \in SUBSET Nodes(p) /\ Closed(p, C)
  <2>1. ASSUME NEW m \in C PROVE p.children[m] \subseteq C
    <3>1. CASE m = n
      BY <1>3, <3>1
    <3>2. CASE \E c \in p.children[n] : m \in Below(p, c)
      BY <1>3, <3>2 DEF Closed
    <3> QED
      BY <3>1, <3>2
  <2>2. C \in SUBSET Nodes(p)
    BY <1>3
  <2> HIDE DEF C
  <2> QED
    BY <2>1, <2>2 DEF Closed
<1>5. Below(p, n) \subseteq C
  <2>1. n \in C
    OBVIOUS
  <2> HIDE DEF C
  <2> QED
    BY <1>1, <1>4, <2>1 DEF IsBelow
<1>6. C \subseteq Below(p, n)
  <2>1. ASSUME NEW c \in p.children[n] PROVE Below(p, c) \subseteq Below(p, n)
    <3>1. c \in Below(p, n)
      BY <1>1 DEF Closed
    <3> QED
      BY <3>1, BelowOrder
  <2> QED
    BY <1>1, <2>1
<1>7. PICK depth : Deepens(p, depth)
  BY TreeDeepens
<1>8. ASSUME NEW c \in p.children[n] PROVE n \notin Below(p, c)
  <2>1. c \in Nodes(p) /\ depth[n] < depth[c] /\ depth[n] \in Nat /\ depth[c] \in Nat
    BY <1>2, <1>7 DEF Deepens
  <2>2. n \in Below(p, c) => n = c \/ depth[c] < depth[n]
    BY <1>7, <2>1, BelowOrder
  <2> QED
    BY <2>1, <2>2
<1>9. ASSUME NEW c \in p.children[n], NEW d \in p.children[n], c # d
      PROVE  Below(p, c) \cap Below(p, d) = {}
  <2>1. ASSUME NEW x \in p.children[n], NEW y \in p.children[n], x # y
        PROVE  x \notin Below(p, y)
    <3>1. x \in Nodes(p) /\ y \in Nodes(p) /\ Caller(p, x) = n
      BY <1>2, CallerIs
    <3>2. x \in Below(p, y) => Caller(p, x) \in Below(p, y)
      BY <2>1, <3>1, BelowOrder
    <3> QED
      BY <1>8, <3>1, <3>2
  <2>2. c \in Nodes(p) /\ d \in Nodes(p) /\ c \notin Below(p, d) /\ d \notin Below(p, c)
    BY <1>2, <1>9, <2>1
  <2>3. ASSUME NEW s \in Below(p, c) \cap Below(p, d) PROVE FALSE
    BY <2>2, BelowChain
  <2> QED
    BY <2>3
<1> QED
  BY <1>5, <1>6, <1>8, <1>9
---------------------------------------------------------------------------
(* A node's total is its size and the totals of its children.               *)
LEMMA SubtreeSum ==
    ASSUME NEW p, Tree(p), p.size \in [Nodes(p) -> Nat], NEW n \in Nodes(p)
    PROVE  LET held == [m \in Nodes(p) |-> SumFunctionOnSet(p.size, Below(p, m))]
           IN held[n] = p.size[n] + SumFunction([c \in p.children[n] |-> held[c]])
<1> DEFINE held == [m \in Nodes(p) |-> SumFunctionOnSet(p.size, Below(p, m))]
           I == p.children[n]
           part == [c \in I |-> held[c]]
           A == [c \in I |-> Below(p, c)]
           R == UNION {A[c] : c \in I}
           f == p.size
           S == Nodes(p)
<1>1. /\ I \subseteq S /\ IsFiniteSet(S) /\ IsFiniteSet(I) /\ \A x \in S : f[x] \in Int
  BY TreeDeepens, FS_Subset
<1>2. \A c \in I : A[c] \in SUBSET S /\ part[c] = SumFunctionOnSet(f, A[c])
  BY <1>1, BelowOrder
<1>3. /\ Below(p, n) = {n} \cup R /\ n \notin R
      /\ \A c, d \in I : c # d => A[c] \cap A[d] = {}
  <2>1. R = UNION {Below(p, c) : c \in p.children[n]}
    OBVIOUS
  <2>2. /\ Below(p, n) = {n} \cup UNION {Below(p, c) : c \in p.children[n]}
        /\ \A c \in p.children[n] : n \notin Below(p, c)
        /\ \A c, d \in p.children[n] : c # d => Below(p, c) \cap Below(p, d) = {}
    BY BelowSplits
  <2>3. n \notin R
    BY <2>2
  <2> HIDE DEF R
  <2> QED
    BY <2>1, <2>2, <2>3
<1>4. n \in S /\ R \subseteq S
  BY <1>2
<1>5. held[n] = SumFunctionOnSet(f, R \cup {n})
  BY <1>3
<1>6. SumFunction(part) = SumFunctionOnSet(part, I)
  BY DEF SumFunction
<1> HIDE DEF I, part, A, f, S, held
<1>7. SumFunctionOnSet(f, R) = SumFunctionOnSet(part, I)
  <2>1. SumsOf(f, I, A, part)
    BY <1>2 DEF SumsOf
  <2> QED
    BY <1>1, <1>2, <1>3, <2>1, SumOverParts
<1> HIDE DEF R
<1>8. SumFunctionOnSet(f, R \cup {n}) = f[n] + SumFunctionOnSet(f, R)
  <2>1. IsFiniteSet(R) /\ \A x \in R : f[x] \in Int
    BY <1>1, <1>4, FS_Subset
  <2> QED
    BY <1>1, <1>3, <1>4, <2>1, SumAdd
<1>9. held[n] = f[n] + SumFunction(part)
  BY <1>5, <1>6, <1>7, <1>8
<1> QED
  BY <1>9 DEF held, part, I, f, S

(* The recursion of aggregate_heap: a frame's total is the sum, over its    *)
(* nodes, of what their subtrees hold.                                      *)
LEMMA HeapTotals ==
    ASSUME NEW p, Tree(p), p.size \in [Nodes(p) -> Nat], NEW frame
    PROVE  HeapTotal(p, frame) =
               SumFunctionOnSet([m \in Nodes(p) |-> SumFunctionOnSet(p.size, Below(p, m))],
                                {n \in Nodes(p) : Frame(p, n) = frame})
<1> DEFINE S == Nodes(p)
           held == [m \in S |-> SumFunctionOnSet(p.size, Below(p, m))]
           body(g) == [n \in S |-> p.size[n] + SumFunction([c \in p.children[n] |-> g[c]])]
           total == CHOOSE g : g = body(g)
           A == {n \in S : Frame(p, n) = frame}
<1>1. HeapTotal(p, frame) = SumFunctionOnSet(total, A)
  BY DEF HeapTotal
<1>2. \A n \in S : held[n] = p.size[n] + SumFunction([c \in p.children[n] |-> held[c]])
  BY SubtreeSum
<1>3. held = body(held)
  BY <1>2
<1>4. total = body(total)
  BY <1>3
<1>5. PICK depth \in [S -> 1..Cardinality(S)] :
          \A m \in S : \A n \in p.children[m] : depth[m] < depth[n]
  BY DEF Tree
<1>6. \A m \in S : p.children[m] \subseteq S
  BY TreeDeepens
<1>7. DOMAIN total = S /\ DOMAIN held = S
  BY <1>4
<1> DEFINE D == Cardinality(S)
<1>8. D \in Nat
  BY FS_CardinalityType DEF Tree
<1>9. \A n \in S : total[n] = p.size[n] + SumFunction([c \in p.children[n] |-> total[c]])
  BY <1>4
<1> HIDE DEF S, held, total, D
<1> DEFINE T == {j \in Nat : \A n \in S : depth[n] + j > D => total[n] = held[n]}
<1>10. 0 \in T
  BY <1>5, <1>8 DEF D
<1>11. ASSUME NEW j \in Nat, j \in T PROVE j + 1 \in T
  <2>1. ASSUME NEW n \in S, depth[n] + (j + 1) > D PROVE total[n] = held[n]
    <3>1. ASSUME NEW c \in p.children[n] PROVE total[c] = held[c]
      <4>1. c \in S /\ depth[n] < depth[c] /\ depth[n] \in Nat /\ depth[c] \in Nat
        BY <1>5, <1>6
      <4>2. depth[c] + j > D
        BY <1>8, <2>1, <4>1
      <4> QED
        BY <1>11, <4>1, <4>2
    <3>2. [c \in p.children[n] |-> total[c]] = [c \in p.children[n] |-> held[c]]
      BY <3>1
    <3> QED
      BY <1>2, <1>9, <3>2
  <2> QED
    BY <2>1
<1>12. D \in T
  <2> HIDE DEF T
  <2> QED
    BY <1>8, <1>10, <1>11, NatInductive
<1>13. \A n \in S : total[n] = held[n]
  <2>1. \A n \in S : depth[n] \in Nat /\ depth[n] + D > D
    BY <1>5, <1>8 DEF D
  <2> QED
    BY <1>12, <2>1
<1>14. total = held
  BY <1>4, <1>7, <1>13 DEF held
<1> QED
  BY <1>1, <1>14 DEF held, S

(* What sort_by and truncate leave of some frames: one of them that is cut  *)
(* was cut for as many as the limit allows that have no less.               *)
LEMMA KeptIs ==
    ASSUME NEW F, IsFiniteSet(F), NEW value, NEW main,
           \A g \in F : value[g][1] = main[g] /\ main[g] \in Int,
           NEW H \in Kept(F, value), NEW f \in F
    PROVE  CutForLarger(f, H, main)
<1>1. /\ H \subseteq F
      /\ Cardinality(H) = IF Cardinality(F) < HotspotLimit THEN Cardinality(F) ELSE HotspotLimit
      /\ \A g \in H, h \in F \ H : ~Above(value[h], value[g])
  BY DEF Kept
<1> SUFFICES ASSUME f \notin H
             PROVE  Cardinality(H) = HotspotLimit /\ \A g \in H : main[g] >= main[f]
  BY DEF CutForLarger
<1>2. IsFiniteSet(H) /\ Cardinality(H) \in Nat /\ Cardinality(F) \in Nat
  BY <1>1, FS_Subset, FS_CardinalityType
<1>3. Cardinality(H) # Cardinality(F)
  BY <1>1, <1>2, FS_Subset
<1>4. \A g \in H : ~(main[f] > main[g]) /\ main[g] \in Int /\ main[f] \in Int
  BY <1>1 DEF Above
<1> QED
  BY <1>1, <1>3, <1>4

(* Functions are the same that agree everywhere.                            *)
LEMMA SameFunction ==
    ASSUME NEW S, NEW R, NEW f \in [S -> R], NEW g \in [S -> R], \A x \in S : f[x] = g[x]
    PROVE  f = g
OBVIOUS

(* A profile has finitely many frames.                                       *)
LEMMA FramesFinite ==
    ASSUME NEW p, IsFiniteSet(Nodes(p))
    PROVE  IsFiniteSet(Frames(p))
<1> DEFINE S == Nodes(p)
           frame == [n \in S |-> Frame(p, n)]
<1>1. Frames(p) = {frame[n] : n \in S}
  BY DEF Frames
<1> HIDE DEF frame
<1>2. IsFiniteSet({frame[n] : n \in S})
  BY ImageFinite
<1> QED
  BY <1>1, <1>2

(* Allocations are attributed once as a frame's own, and as its total       *)
(* where it is not under itself.                                             *)
LEMMA HeapHolds ==
    ASSUME NEW p, Tree(p), p.size \in [Nodes(p) -> Nat]
    PROVE  HeapAttributed(p)
<1> DEFINE S == Nodes(p)
           size == p.size
           held == [m \in S |-> SumFunctionOnSet(size, Below(p, m))]
           With(f) == {n \in S : Frame(p, n) = f}
<1>1. /\ IsFiniteSet(S) /\ DOMAIN size = S
      /\ \A x \in S : size[x] \in Nat /\ size[x] \in Int
  BY TreeDeepens
<1>2. \A n \in S : Below(p, n) \subseteq S /\ n \in Below(p, n)
  BY BelowOrder
<1>3. SumFunction([f \in Frames(p) |-> HeapSelf(p, f)]) = SumFunction(size)
  <2> DEFINE I == Frames(p)
             part == [f \in I |-> HeapSelf(p, f)]
             frame == [n \in S |-> Frame(p, n)]
  <2>1. IsFiniteSet(I)
    BY <1>1, FramesFinite
  <2>2. SumsByKey(size, S, I, frame, part)
    BY DEF SumsByKey, HeapSelf, Frames
  <2>3. SumFunction(part) = SumFunctionOnSet(part, I)
    BY DEF SumFunction
  <2>4. SumFunction(size) = SumFunctionOnSet(size, S)
    BY <1>1 DEF SumFunction
  <2> HIDE DEF I, part, frame, S, size
  <2>5. SumFunctionOnSet(size, S) = SumFunctionOnSet(part, I)
    BY <1>1, <2>1, <2>2, SumParts
  <2>6. SumFunction(part) = SumFunction(size)
    BY <2>3, <2>4, <2>5
  <2> QED
    BY <2>6 DEF part, I, size
<1>4. ASSUME NEW f \in Frames(p)
      PROVE  LET under == SumFunctionOnSet(p.size, Under(p, f))
             IN /\ HeapSelf(p, f) <= under /\ under <= HeapTotal(p, f)
                /\ HeapTotal(p, f) > under => Nested(p, f)
                /\ HeapSelf(p, f) \in Int
  <2> DEFINE I == With(f)
             U == Under(p, f)
             A == [n \in I |-> Below(p, n)]
  <2>1. I \subseteq S /\ IsFiniteSet(I)
    BY <1>1, FS_Subset
  <2>2. U = UNION {A[n] : n \in I} /\ \A n \in I : A[n] \in SUBSET S
    BY <1>2 DEF Under
  <2>3. I \subseteq U /\ U \in SUBSET S
    <3>1. \A n \in I : n \in A[n]
      BY <1>2
    <3> HIDE DEF A, I, U
    <3> QED
      BY <2>2, <3>1
  <2>4. HeapSelf(p, f) = SumFunctionOnSet(size, I)
    BY DEF HeapSelf
  <2>5. HeapTotal(p, f) = SumFunctionOnSet(held, I)
    BY HeapTotals
  <2>6. SumsOf(size, I, A, held)
    BY <2>1 DEF SumsOf
  <2>7. ~Nested(p, f) => \A n, m \in I : n # m => A[n] \cap A[m] = {}
    <3> SUFFICES ASSUME ~Nested(p, f), NEW n \in I, NEW m \in I, n # m,
                        NEW s \in A[n] \cap A[m]
                 PROVE  FALSE
      OBVIOUS
    <3>1. n \in S /\ m \in S /\ s \in Below(p, n) \cap Below(p, m)
      OBVIOUS
    <3>2. n \in Below(p, m) \/ m \in Below(p, n)
      BY <3>1, BelowChain
    <3> QED
      BY <3>1, <3>2 DEF Nested
  <2> HIDE DEF I, U, A, S, size, held
  <2>8. IsFiniteSet(U) /\ \A x \in U : size[x] \in Nat /\ size[x] \in Int
    BY <1>1, <2>3, FS_Subset
  <2>9. SumFunctionOnSet(size, I) <= SumFunctionOnSet(size, U)
    BY <2>3, <2>8, SumSubset
  <2>10. SumFunctionOnSet(size, U) <= SumFunctionOnSet(held, I)
    BY <1>1, <2>1, <2>2, <2>6, SumOverUnion
  <2>11. ~Nested(p, f) => SumFunctionOnSet(size, U) = SumFunctionOnSet(held, I)
    BY <1>1, <2>1, <2>2, <2>6, <2>7, SumOverParts
  <2>12. SumFunctionOnSet(size, U) \in Int /\ SumFunctionOnSet(size, I) \in Int
    <3>1. IsFiniteSet(I) /\ \A x \in I : size[x] \in Int
      BY <2>1, <2>3, <2>8
    <3> QED
      BY <2>8, <3>1, SumBasics
  <2>13. ~Nested(p, f) => ~(SumFunctionOnSet(held, I) > SumFunctionOnSet(size, U))
    BY <2>11, <2>12
  <2> QED
    BY <2>4, <2>5, <2>9, <2>10, <2>12, <2>13 DEF U, size
<1>5. ASSUME NEW f \in Frames(p), HeapSelf(p, f) > 0, NEW H \in HeapHotspots(p)
      PROVE  CutForLarger(f, H, [g \in Frames(p) |-> HeapSelf(p, g)])
  <2> DEFINE F == {g \in Frames(p) : HeapSelf(p, g) > 0}
             value == [g \in Frames(p) |-> <<HeapSelf(p, g), 0>>]
             main == [g \in Frames(p) |-> HeapSelf(p, g)]
  <2>1. H \in Kept(F, value) /\ f \in F
    BY <1>5 DEF HeapHotspots
  <2>2. IsFiniteSet(F)
    <3>1. IsFiniteSet(Frames(p))
      BY <1>1, FramesFinite
    <3> QED
      BY <3>1, FS_Subset
  <2>3. \A g \in F : value[g][1] = main[g] /\ main[g] \in Int
    BY <1>4
  <2> HIDE DEF F, value, main
  <2>4. CutForLarger(f, H, main)
    BY <2>1, <2>2, <2>3, KeptIs
  <2> QED
    BY <2>4 DEF main
<1> QED
  BY <1>3, <1>4, <1>5 DEF HeapAttributed
---------------------------------------------------------------------------
(* The stack of a sample is its node and all above it; that of an unknown   *)
(* node is empty.                                                            *)
LEMMA StackIs ==
    ASSUME NEW p, Tree(p), NEW s \in Nat \ {0}
    PROVE  /\ s \notin Nodes(p) => Stack(p, s) = <<>>
           /\ s \in Nodes(p) => /\ Stack(p, s) \in Seq(Nodes(p))
                                /\ Range(Stack(p, s)) = {n \in Nodes(p) : s \in Below(p, n)}
<1> DEFINE S == Nodes(p)
           D == {0, s} \cup S
           parents == [n \in D |-> IF n = 0 THEN 0 ELSE Caller(p, n)]
           size == Cardinality(S)
           N == size + 2
           line == Walk(parents, s, N)
           Stops(k) == line[k] = 0 \/ \E j \in 1..k - 1 : line[j] = line[k]
           Z == {k \in DOMAIN line : Stops(k)}
           K == Min(Z)
           nodes == [k \in 1..K - 1 |-> line[k]]
<1>1. Stack(p, s) = IF s \in S THEN nodes ELSE Tail(nodes)
  BY DEF Stack
<1>2. /\ S \subseteq Nat \ {0} /\ size \in Nat /\ N \in Nat /\ N # 0 /\ 2 <= N
      /\ size + 1 \in 1..N /\ 0 \notin S
  <2>1. S \subseteq Nat \ {0} /\ size \in Nat
    BY TreeDeepens, FS_CardinalityType
  <2> QED
    BY <2>1
<1>3. /\ DOMAIN parents = D /\ s \in D /\ parents[0] = 0
      /\ \A n \in D : n # 0 => parents[n] = Caller(p, n)
      /\ \A n \in D : parents[n] \in {0} \cup S
      /\ {0} \cup S \subseteq D
  BY CallerIs
<1>4. Visits(parents, s, N, line)
  <2>1. \A n \in DOMAIN parents : parents[n] \in DOMAIN parents
    BY <1>3
  <2> HIDE DEF parents, N
  <2> QED
    BY <1>2, <1>3, <2>1, WalkSteps
<1> HIDE DEF line, parents
<1>5. /\ DOMAIN line = 1..N /\ line[1] = s
      /\ \A k \in 1..N : line[k] \in D
      /\ \A k \in 1..N : k # N => line[k + 1] = parents[line[k]]
  BY <1>3, <1>4 DEF Visits
<1>6. ASSUME Z # {}
      PROVE  /\ K \in 1..N /\ Stops(K)
             /\ \A k \in 1..N : k < K => ~Stops(k)
  <2>1. Z \in SUBSET Nat /\ Z \subseteq 1..N
    BY <1>2, <1>5
  <2>2. Min(Z) \in Z /\ \A k \in Z : Min(Z) <= k
    <3> HIDE DEF Z
    <3> QED
      BY <1>6, <2>1, Least
  <2>3. K \in Z /\ \A k \in Z : K <= k
    BY <2>2
  <2> HIDE DEF K
  <2> QED
    BY <1>5, <2>1, <2>3
<1> HIDE DEF K
<1>7. ASSUME s \notin S PROVE Stack(p, s) = <<>>
  <2>1. \A m \in S : s \notin p.children[m]
    BY <1>7, TreeDeepens
  <2>2. Caller(p, s) = 0
    BY <2>1, CallerIs
  <2>3. line[2] = 0 /\ line[1] # 0
    <3>1. line[1 + 1] = parents[line[1]]
      BY <1>2, <1>5
    <3> QED
      BY <1>3, <1>5, <2>2, <3>1
  <2>4. 2 \in Z /\ ~Stops(1)
    BY <1>2, <1>5, <2>3
  <2>5. K = 2
    <3>1. K \in 1..N /\ (2 < K => ~Stops(2)) /\ Stops(K)
      BY <1>2, <1>6, <2>4
    <3>2. K # 1
      BY <2>4, <3>1
    <3> QED
      BY <1>2, <2>4, <3>1, <3>2
  <2>6. nodes = <<s>>
    BY <1>5, <2>5
  <2>7. Tail(<<s>>) = <<>>
    OBVIOUS
  <2> HIDE DEF nodes
  <2> QED
    BY <1>1, <1>7, <2>6, <2>7
<1>8. ASSUME s \in S
      PROVE  /\ nodes \in Seq(S)
             /\ Range(nodes) = {n \in S : s \in Below(p, n)}
  <2>1. PICK depth \in [S -> 1..size] :
            \A m \in S : \A n \in p.children[m] : depth[m] < depth[n]
    BY DEF Tree
  <2>2. \A k \in 1..N : line[k] = 0 \/ line[k] \in S
    BY <1>5, <1>8
  <2>3. ASSUME NEW k \in 1..N, k # N
        PROVE  /\ line[k] = 0 => line[k + 1] = 0
               /\ line[k] \in S => /\ line[k + 1] = Caller(p, line[k])
                                   /\ line[k + 1] # 0 =>
                                        /\ line[k] \in p.children[line[k + 1]]
                                        /\ depth[line[k + 1]] < depth[line[k]]
    <3>1. line[k + 1] = parents[line[k]] /\ k + 1 \in 1..N
      BY <1>2, <1>5, <2>3
    <3>2. line[k] \in S => line[k + 1] = Caller(p, line[k])
      BY <1>2, <1>3, <3>1
    <3>3. line[k + 1] # 0 => line[k + 1] \in S
      BY <2>2, <3>1
    <3> QED
      BY <1>3, <2>1, <3>1, <3>2, <3>3, CallerIs
  <2>4. \A n \in S : depth[n] \in 1..size /\ depth[n] \in Nat /\ depth[n] >= 1
    BY <1>2, <2>1
  <2> HIDE DEF S, size, N
  <2>5. \A k \in 1..N : line[k] # 0 => depth[line[k]] + k <= size + 1
    <3> DEFINE T == {k \in Nat : k \in 1..N /\ line[k] # 0 => depth[line[k]] + k <= size + 1}
    <3>1. 0 \in T
      OBVIOUS
    <3>2. ASSUME NEW k \in Nat, k \in T PROVE k + 1 \in T
      <4> SUFFICES ASSUME k + 1 \in 1..N, line[k + 1] # 0
                   PROVE  depth[line[k + 1]] + (k + 1) <= size + 1
        OBVIOUS
      <4>1. CASE k = 0
        <5>1. line[k + 1] = s /\ depth[s] \in 1..size
          BY <1>5, <1>8, <2>4, <4>1
        <5> QED
          BY <1>2, <4>1, <5>1
      <4>2. CASE k # 0
        <5>1. k \in 1..N /\ k # N
          BY <1>2, <4>2
        <5>2. line[k] # 0 /\ line[k] \in S
          BY <2>2, <2>3, <5>1
        <5>3. line[k + 1] \in S /\ depth[line[k + 1]] < depth[line[k]]
          BY <2>2, <2>3, <5>1, <5>2
        <5>4. depth[line[k]] + k <= size + 1
          BY <3>2, <5>1, <5>2
        <5>5. depth[line[k]] \in Nat /\ depth[line[k + 1]] \in Nat
          BY <2>4, <5>2, <5>3
        <5> QED
          BY <1>2, <5>3, <5>4, <5>5
      <4> QED
        BY <4>1, <4>2
    <3>3. Nat \subseteq T
      <4> HIDE DEF T
      <4> QED
        BY <3>1, <3>2, NatInductive
    <3> QED
      BY <1>2, <3>3
  <2>6. \A k \in 1..N : line[k] # 0 =>
            \A j \in 1..k - 1 : line[j] \in S /\ depth[line[k]] < depth[line[j]]
    <3> DEFINE T == {k \in Nat : k \in 1..N /\ line[k] # 0 =>
                         \A j \in 1..k - 1 : line[j] \in S /\ depth[line[k]] < depth[line[j]]}
    <3>1. 0 \in T
      OBVIOUS
    <3>2. ASSUME NEW k \in Nat, k \in T PROVE k + 1 \in T
      <4> SUFFICES ASSUME k + 1 \in 1..N, line[k + 1] # 0, NEW j \in 1..k
                   PROVE  line[j] \in S /\ depth[line[k + 1]] < depth[line[j]]
        OBVIOUS
      <4>1. k \in 1..N /\ k # N
        BY <1>2
      <4>2. line[k] # 0 /\ line[k] \in S
        BY <2>2, <2>3, <4>1
      <4>3. line[k + 1] \in S /\ depth[line[k + 1]] < depth[line[k]]
        BY <2>2, <2>3, <4>1, <4>2
      <4>4. j = k \/ (line[j] \in S /\ depth[line[k]] < depth[line[j]])
        BY <3>2, <4>1, <4>2
      <4>5. line[j] \in S
        BY <4>2, <4>4
      <4>6. depth[line[k]] \in Nat /\ depth[line[k + 1]] \in Nat /\ depth[line[j]] \in Nat
        BY <2>4, <4>2, <4>3, <4>5
      <4> QED
        BY <4>3, <4>4, <4>5, <4>6
    <3>3. Nat \subseteq T
      <4> HIDE DEF T
      <4> QED
        BY <3>1, <3>2, NatInductive
    <3> QED
      BY <1>2, <3>3
  <2>7. K \in 1..N /\ line[K] = 0 /\ \A k \in 1..K - 1 : k \in 1..N /\ line[k] # 0 /\ line[k] \in S
    <3>1. line[size + 1] = 0
      <4>1. line[size + 1] # 0 => depth[line[size + 1]] + (size + 1) <= size + 1
        BY <1>2, <2>5
      <4>2. line[size + 1] # 0 => line[size + 1] \in S
        BY <1>2, <2>2
      <4>3. line[size + 1] # 0 =>
                depth[line[size + 1]] \in Nat /\ depth[line[size + 1]] >= 1
        BY <2>4, <4>2
      <4> QED
        BY <1>2, <4>1, <4>3
    <3>2. Z # {}
      BY <1>2, <1>5, <3>1
    <3>3. K \in 1..N /\ Stops(K) /\ \A k \in 1..N : k < K => ~Stops(k)
      BY <1>6, <3>2
    <3>4. line[K] = 0
      <4> SUFFICES ASSUME line[K] # 0 PROVE FALSE
        OBVIOUS
      <4>1. PICK j \in 1..K - 1 : line[j] = line[K]
        BY <3>3
      <4>2. line[j] \in S /\ depth[line[K]] < depth[line[j]]
        BY <2>6, <3>3
      <4>3. depth[line[j]] \in Nat
        BY <2>4, <4>2
      <4> QED
        BY <4>1, <4>2, <4>3
    <3>5. ASSUME NEW k \in 1..K - 1 PROVE k \in 1..N /\ line[k] # 0
      <4>1. k \in 1..N /\ k < K
        BY <1>2, <3>3
      <4> QED
        BY <3>3, <4>1
    <3> QED
      BY <2>2, <3>3, <3>4, <3>5
  <2>8. K - 1 \in Nat /\ 1 \in 1..K - 1
    <3>1. K # 1
      BY <1>2, <1>5, <1>8, <2>7
    <3> QED
      BY <1>2, <2>7, <3>1
  <2>9. nodes \in Seq(S)
    BY <2>7, <2>8
  <2>10. \A k \in 1..K - 1 : s \in Below(p, line[k])
    <3> DEFINE T == {k \in Nat : k \in 1..K - 1 => s \in Below(p, line[k])}
    <3>1. 0 \in T
      OBVIOUS
    <3>2. ASSUME NEW k \in Nat, k \in T PROVE k + 1 \in T
      <4> SUFFICES ASSUME k + 1 \in 1..K - 1 PROVE s \in Below(p, line[k + 1])
        OBVIOUS
      <4>1. CASE k = 0
        BY <1>5, <1>8, <4>1, BelowOrder DEF S
      <4>2. CASE k # 0
        <5> DEFINE m == line[k]
                   n == line[k + 1]
        <5>1. k \in 1..K - 1 /\ k \in 1..N /\ k # N
          BY <1>2, <2>7, <2>8, <4>2
        <5>2. m \in S /\ n \in S /\ n # 0 /\ s \in Below(p, m)
          BY <2>7, <3>2, <5>1
        <5>3. m \in p.children[n]
          BY <2>3, <5>1, <5>2
        <5> HIDE DEF m, n
        <5>4. n \in Below(p, n) /\ Closed(p, Below(p, n))
          BY <5>2, BelowOrder DEF S
        <5>5. m \in Below(p, n)
          BY <5>3, <5>4 DEF Closed
        <5>6. Below(p, m) \subseteq Below(p, n)
          BY <5>2, <5>5, BelowOrder DEF S
        <5> QED
          BY <5>2, <5>6 DEF n
      <4> QED
        BY <4>1, <4>2
    <3>3. Nat \subseteq T
      <4> HIDE DEF T
      <4> QED
        BY <3>1, <3>2, NatInductive
    <3> QED
      BY <2>8, <3>3
  <2>11. ASSUME NEW n \in S, s \in Below(p, n) PROVE \E k \in 1..K - 1 : line[k] = n
    <3> DEFINE T == {k \in Nat : k \in 1..K - 1 =>
                         line[k] \in Below(p, n) \/ \E j \in 1..K - 1 : line[j] = n}
    <3>1. 0 \in T
      OBVIOUS
    <3>2. ASSUME NEW k \in Nat, k \in T PROVE k + 1 \in T
      <4> SUFFICES ASSUME k + 1 \in 1..K - 1, \A j \in 1..K - 1 : line[j] # n
                   PROVE  line[k + 1] \in Below(p, n)
        OBVIOUS
      <4>1. CASE k = 0
        BY <1>5, <2>11, <4>1
      <4>2. CASE k # 0
        <5>1. k \in 1..K - 1 /\ k \in 1..N /\ k # N
          BY <1>2, <2>7, <2>8, <4>2
        <5>2. line[k] \in Below(p, n) /\ line[k] # n /\ line[k] \in S
          BY <2>7, <3>2, <5>1
        <5>3. Caller(p, line[k]) \in Below(p, n)
          BY <5>2, BelowOrder DEF S
        <5> QED
          BY <2>3, <5>1, <5>2, <5>3
      <4> QED
        BY <4>1, <4>2
    <3>3. K - 1 \in T
      <4> HIDE DEF T
      <4> QED
        BY <2>8, <3>1, <3>2, NatInductive
    <3> SUFFICES ASSUME \A j \in 1..K - 1 : line[j] # n PROVE FALSE
      OBVIOUS
    <3>4. K - 1 \in 1..K - 1 /\ K - 1 \in 1..N /\ K - 1 # N /\ (K - 1) + 1 = K
      BY <1>2, <2>7, <2>8
    <3>5. line[K - 1] \in Below(p, n) /\ line[K - 1] # n /\ line[K - 1] \in S
      BY <2>7, <3>3, <3>4
    <3>6. Caller(p, line[K - 1]) \in Below(p, n)
      BY <3>5, BelowOrder DEF S
    <3>7. line[(K - 1) + 1] = Caller(p, line[K - 1])
      BY <2>3, <3>4, <3>5
    <3>8. Caller(p, line[K - 1]) = 0
      BY <2>7, <3>4, <3>7
    <3>9. Below(p, n) \subseteq S
      BY BelowOrder DEF S
    <3> QED
      BY <1>2, <3>6, <3>8, <3>9
  <2>12. Range(nodes) = {line[k] : k \in 1..K - 1}
    BY DEF Range
  <2> DEFINE seen == {line[k] : k \in 1..K - 1}
             above == {n \in S : s \in Below(p, n)}
  <2>13. seen \subseteq above
    <3>1. \A k \in 1..K - 1 : line[k] \in S
      BY <2>7
    <3> QED
      BY <2>10, <3>1
  <2>14. above \subseteq seen
    BY <2>11
  <2>15. seen = above
    <3> HIDE DEF seen, above
    <3> QED
      BY <2>13, <2>14
  <2> HIDE DEF nodes
  <2> QED
    BY <2>9, <2>12, <2>15
<1> QED
  BY <1>1, <1>7, <1>8
---------------------------------------------------------------------------
(* CPU time.  The samples in which a frame was on the stack,                 *)
OnStack(p, f) ==
    {k \in DOMAIN p.samples : \E n \in Range(Stack(p, p.samples[k])) : Frame(p, n) = f}

(* The frame is on the stack of the samples at or below one of its nodes.   *)
LEMMA OnStackIs ==
    ASSUME NEW p, Tree(p), p.samples \in Seq(Nat \ {0}), NEW f
    PROVE  OnStack(p, f) = {k \in DOMAIN p.samples : /\ p.samples[k] \in Nodes(p)
                                                     /\ p.samples[k] \in Under(p, f)}
<1>1. ASSUME NEW k \in DOMAIN p.samples
      PROVE  k \in OnStack(p, f) <=> /\ p.samples[k] \in Nodes(p)
                                     /\ p.samples[k] \in Under(p, f)
  <2> DEFINE s == p.samples[k]
  <2>1. s \in Nat \ {0}
    OBVIOUS
  <2>2. k \in OnStack(p, f) <=> \E n \in Range(Stack(p, s)) : Frame(p, n) = f
    BY DEF OnStack
  <2> HIDE DEF s
  <2>3. CASE s \notin Nodes(p)
    <3>1. Stack(p, s) = <<>>
      BY <2>1, <2>3, StackIs
    <3>2. Range(Stack(p, s)) = {}
      BY <3>1 DEF Range
    <3> QED
      BY <2>2, <2>3, <3>2 DEF s
  <2>4. CASE s \in Nodes(p)
    <3>1. Range(Stack(p, s)) = {n \in Nodes(p) : s \in Below(p, n)}
      BY <2>1, <2>4, StackIs
    <3>2. s \in Under(p, f) <=> \E n \in Nodes(p) : Frame(p, n) = f /\ s \in Below(p, n)
      BY DEF Under
    <3> QED
      BY <2>2, <2>4, <3>1, <3>2 DEF s
  <2> QED
    BY <2>3, <2>4
<1>2. OnStack(p, f) \subseteq DOMAIN p.samples
  BY DEF OnStack
<1> QED
  BY <1>1, <1>2

(* The labels in a sample's flame graph stack are those of its nodes; there *)
(* are none if its node is unknown.                                          *)
LEMMA FlameIs ==
    ASSUME NEW p, Tree(p), p.samples \in Seq(Nat \ {0}), NEW k \in DOMAIN p.samples
    PROVE  /\ Range(Stack(p, p.samples[k])) \subseteq Nodes(p)
           /\ Range(Flame(p, k)) = {Label(p, n) : n \in Range(Stack(p, p.samples[k]))}
           /\ p.samples[k] \notin Nodes(p) => Range(Flame(p, k)) = {}
<1> DEFINE s == p.samples[k]
           nodes == Stack(p, s)
           N == Len(nodes)
<1>1. nodes \in Seq(Nodes(p)) /\ (s \notin Nodes(p) => nodes = <<>>)
  <2>1. s \in Nat \ {0}
    OBVIOUS
  <2>2. <<>> \in Seq(Nodes(p))
    OBVIOUS
  <2> HIDE DEF s
  <2> QED
    BY <2>1, <2>2, StackIs
<1>2. Flame(p, k) = [j \in DOMAIN nodes |-> Label(p, nodes[N + 1 - j])]
  BY DEF Flame
<1> HIDE DEF nodes
<1>3. /\ N \in Nat /\ DOMAIN nodes = 1..N /\ (s \notin Nodes(p) => N = 0)
      /\ \A j \in 1..N : nodes[j] \in Nodes(p)
  BY <1>1, LenProperties, ElementOfSeq
<1> HIDE DEF N
<1>4. \A j \in 1..N : N + 1 - j \in 1..N /\ N + 1 - (N + 1 - j) = j
  BY <1>3
<1>5. Range(Flame(p, k)) = {Label(p, nodes[N + 1 - j]) : j \in 1..N}
  <2> DEFINE shown == Flame(p, k)
  <2>1. DOMAIN shown = 1..N /\ \A j \in 1..N : shown[j] = Label(p, nodes[N + 1 - j])
    BY <1>2, <1>3
  <2>2. Range(shown) = {shown[j] : j \in DOMAIN shown}
    BY DEF Range
  <2> HIDE DEF shown
  <2> QED
    BY <2>1, <2>2 DEF shown
<1>6. Range(nodes) = {nodes[j] : j \in 1..N}
  BY <1>3 DEF Range
<1>7. Range(Flame(p, k)) = {Label(p, n) : n \in Range(nodes)}
  BY <1>4, <1>5, <1>6
<1>8. s \notin Nodes(p) => Range(Flame(p, k)) = {}
  BY <1>3, <1>5
<1> QED
  BY <1>3, <1>6, <1>7, <1>8 DEF nodes

(* A sample that took time weighs what it took.                             *)
LEMMA MaxOfTwo ==
    ASSUME NEW d \in Int, d >= 1
    PROVE  Max({1, d}) = d
<1> DEFINE S == {1, d}
<1>1. S \in SUBSET Int /\ S # {}
  OBVIOUS
<1>2. IsFiniteSet(S)
  <2>1. IsFiniteSet({1}) /\ S = {1} \cup {d}
    BY FS_Singleton
  <2> QED
    BY <2>1, FS_AddElement
<1>3. Max(S) \in S /\ \A x \in S : x <= Max(S)
  <2> HIDE DEF S
  <2> QED
    BY <1>1, <1>2, Greatest
<1>4. d <= Max(S) /\ (Max(S) = 1 \/ Max(S) = d)
  BY <1>3
<1> QED
  BY <1>4

(* The CPU hotspots and the flame graph of a profile.                       *)
LEMMA CpuHolds ==
    ASSUME NEW p, Tree(p), p.samples \in Seq(Nat \ {0}), p.deltas \in Seq(Int)
    PROVE  CpuAttributed(p)
<1> DEFINE S == Nodes(p)
           K == DOMAIN p.samples
           known == {k \in K : p.samples[k] \in S}
           delta == [k \in K |-> Delta(p, k)]
           Positive == \A k \in known : Delta(p, k) >= 1
<1>1. /\ IsFiniteSet(S) /\ IsFiniteSet(K) /\ known \subseteq K /\ IsFiniteSet(known)
      /\ \A k \in K : delta[k] \in Int /\ delta[k] = Delta(p, k)
  <2>1. K = 1..Len(p.samples) /\ Len(p.samples) \in Nat
    BY LenProperties
  <2>2. IsFiniteSet(K)
    BY <2>1, FS_Interval
  <2>3. IsFiniteSet(known)
    BY <2>2, FS_Subset
  <2>4. \A k \in DOMAIN p.deltas : p.deltas[k] \in Int
    OBVIOUS
  <2>5. \A k \in K : Delta(p, k) \in Int
    BY <2>4 DEF Delta
  <2> QED
    BY <2>2, <2>3, <2>5, TreeDeepens
<1>2. ASSUME NEW A \in SUBSET K
      PROVE  SumFunction([k \in A |-> Delta(p, k)]) = SumFunctionOnSet(delta, A)
  <2> DEFINE own == [k \in A |-> Delta(p, k)]
  <2>1. SumFunction(own) = SumFunctionOnSet(own, A)
    BY DEF SumFunction
  <2>2. IsFiniteSet(A) /\ \A k \in A : delta[k] \in Int /\ own[k] = delta[k]
    BY <1>1, FS_Subset
  <2> HIDE DEF own, delta
  <2>3. SumFunctionOnSet(own, A) = SumFunctionOnSet(delta, A)
    BY <2>2, SumSame
  <2> QED
    BY <2>1, <2>3 DEF own
<1>3. ASSUME NEW f
      PROVE  /\ OnStack(p, f) = {k \in known : p.samples[k] \in Under(p, f)}
             /\ OnStack(p, f) \subseteq known
             /\ TotalValue(p, f) = SumFunctionOnSet(delta, OnStack(p, f))
  <2>1. OnStack(p, f) = {k \in known : p.samples[k] \in Under(p, f)}
    BY OnStackIs
  <2>2. OnStack(p, f) \in SUBSET K
    BY <2>1
  <2>3. TotalValue(p, f) = SumFunction([k \in OnStack(p, f) |-> Delta(p, k)])
    BY DEF TotalValue, OnStack
  <2> QED
    BY <1>2, <2>1, <2>2, <2>3
<1> DEFINE Top(f) == {k \in known : Frame(p, p.samples[k]) = f}
<1>4. ASSUME NEW f PROVE SelfValue(p, f) = SumFunctionOnSet(delta, Top(f))
  <2> DEFINE A == {j \in K : p.samples[j] \in S /\ Frame(p, p.samples[j]) = f}
  <2>1. SelfValue(p, f) = SumFunction([k \in A |-> Delta(p, k)])
    BY DEF SelfValue
  <2>2. A = Top(f) /\ A \in SUBSET K
    OBVIOUS
  <2> HIDE DEF A, K, delta, Top
  <2> QED
    BY <1>2, <2>1, <2>2
<1>5. ASSUME NEW f PROVE Top(f) \subseteq OnStack(p, f)
  <2>1. ASSUME NEW k \in Top(f) PROVE p.samples[k] \in Under(p, f)
    BY BelowOrder DEF Under
  <2> QED
    BY <1>3, <2>1
<1>6. \A f \in Frames(p) :
          TotalValue(p, f) = SumFunction([k \in {j \in known : p.samples[j] \in Under(p, f)} |->
                                              Delta(p, k)])
  <2>1. ASSUME NEW f
        PROVE  SumFunctionOnSet(delta, OnStack(p, f))
               = SumFunction([k \in OnStack(p, f) |-> Delta(p, k)])
    <3>1. OnStack(p, f) \in SUBSET K
      BY <1>1, <1>3
    <3> QED
      BY <1>2, <3>1
  <2> QED
    BY <1>3, <2>1
<1>7. SumFunction([f \in Frames(p) |-> SelfValue(p, f)])
      = SumFunction([k \in known |-> Delta(p, k)])
  <2> DEFINE I == Frames(p)
             part == [f \in I |-> SelfValue(p, f)]
             top == [k \in known |-> Frame(p, p.samples[k])]
  <2>1. IsFiniteSet(I)
    BY <1>1, FramesFinite
  <2>2. SumsByKey(delta, known, I, top, part)
    <3>1. \A k \in known : top[k] \in I
      BY DEF Frames
    <3>2. ASSUME NEW f \in I
          PROVE  part[f] = SumFunctionOnSet(delta, {k \in known : top[k] = f})
      <4>1. {k \in known : top[k] = f} = Top(f)
        OBVIOUS
      <4>2. part[f] = SelfValue(p, f)
        OBVIOUS
      <4> HIDE DEF part, top, Top, delta, known
      <4> QED
        BY <1>4, <4>1, <4>2
    <3> HIDE DEF part, top, I, known, delta
    <3> QED
      BY <3>1, <3>2 DEF SumsByKey
  <2>3. SumFunction(part) = SumFunctionOnSet(part, I)
    BY DEF SumFunction
  <2>4. SumFunction([k \in known |-> Delta(p, k)]) = SumFunctionOnSet(delta, known)
    BY <1>1, <1>2
  <2>5. \A k \in known : delta[k] \in Int
    BY <1>1
  <2> HIDE DEF I, part, top, S, delta, known
  <2>6. SumFunctionOnSet(delta, known) = SumFunctionOnSet(part, I)
    BY <1>1, <2>1, <2>2, <2>5, SumParts
  <2>7. SumFunction(part) = SumFunction([k \in known |-> Delta(p, k)])
    BY <2>3, <2>4, <2>6
  <2> QED
    BY <2>7 DEF part, I
<1>8. ASSUME Positive, NEW f \in Frames(p)
      PROVE  SelfValue(p, f) <= TotalValue(p, f)
             /\ SelfValue(p, f) \in Int /\ TotalValue(p, f) \in Int
  <2>1. IsFiniteSet(OnStack(p, f)) /\ \A k \in OnStack(p, f) : delta[k] \in Nat /\ delta[k] \in Int
    <3>1. OnStack(p, f) \subseteq known
      BY <1>3
    <3>2. IsFiniteSet(OnStack(p, f))
      BY <1>1, <3>1, FS_Subset
    <3>3. \A k \in known : delta[k] \in Int /\ delta[k] >= 1
      BY <1>1, <1>8
    <3> HIDE DEF delta, known
    <3> QED
      BY <3>1, <3>2, <3>3
  <2> DEFINE A == OnStack(p, f)
             B == Top(f)
  <2>2. B \subseteq A
    BY <1>5
  <2> HIDE DEF A, B, delta
  <2>3. IsFiniteSet(B) /\ \A k \in B : delta[k] \in Int
    BY <2>1, <2>2, FS_Subset DEF A
  <2>4. SumFunctionOnSet(delta, B) <= SumFunctionOnSet(delta, A)
    BY <2>1, <2>2, SumSubset DEF A
  <2>5. SumFunctionOnSet(delta, B) \in Int /\ SumFunctionOnSet(delta, A) \in Int
    BY <2>1, <2>3, SumBasics DEF A
  <2> QED
    BY <1>3, <1>4, <2>4, <2>5 DEF A, B
<1> DEFINE Shown(L) == {k \in K : Range(Flame(p, k)) \cap L # {}}
<1>9. ASSUME Positive, NEW L
      PROVE  /\ SumFunctionOnSet(Folded(p), {s \in DOMAIN Folded(p) : Range(s) \cap L # {}})
                  = SumFunctionOnSet(delta, Shown(L))
             /\ Shown(L) \subseteq known
  <2> DEFINE A == Shown(L)
             key == [k \in K |-> Flame(p, k)]
             part == Folded(p)
             I == {s \in DOMAIN part : Range(s) \cap L # {}}
             With(s) == {j \in K : Flame(p, j) = s}
  <2>1. /\ DOMAIN part = {Flame(p, k) : k \in K} \ {<<>>}
        /\ \A s \in DOMAIN part :
              part[s] = SumFunction([k \in With(s) |-> Max({1, Delta(p, k)})])
    BY DEF Folded
  <2>2. A \subseteq known /\ A \subseteq K
    BY FlameIs
  <2>3. IsFiniteSet(I)
    <3>1. IsFiniteSet({Flame(p, k) : k \in K})
      <4>1. {key[k] : k \in K} = {Flame(p, k) : k \in K}
        OBVIOUS
      <4> HIDE DEF key
      <4>2. IsFiniteSet({key[k] : k \in K})
        BY <1>1, ImageFinite
      <4> QED
        BY <4>1, <4>2
    <3>2. I \subseteq {Flame(p, k) : k \in K}
      BY <2>1
    <3> HIDE DEF I
    <3> QED
      BY <3>1, <3>2, FS_Subset
  <2>4. ASSUME NEW k \in A PROVE key[k] \in I
    <3>1. k \in K /\ Range(Flame(p, k)) \cap L # {} /\ key[k] = Flame(p, k)
      BY <2>2
    <3>2. Flame(p, k) # <<>>
      <4>1. Range(<<>>) = {}
        BY DEF Range
      <4> QED
        BY <3>1, <4>1
    <3> HIDE DEF part, key
    <3> QED
      BY <2>1, <3>1, <3>2
  <2>5. ASSUME NEW s \in I
        PROVE  part[s] = SumFunctionOnSet(delta, {k \in A : key[k] = s})
    <3>1. With(s) = {k \in A : key[k] = s}
      <4>1. s \in DOMAIN part /\ Range(s) \cap L # {}
        OBVIOUS
      <4>2. \A k \in K : key[k] = Flame(p, k)
        OBVIOUS
      <4>3. \A k \in K : Flame(p, k) = s => k \in A
        BY <4>1
      <4> HIDE DEF A, part
      <4> QED
        BY <2>2, <4>2, <4>3
    <3>2. \A k \in With(s) : Max({1, Delta(p, k)}) = Delta(p, k)
      <4>1. With(s) \subseteq known
        BY <2>2, <3>1
      <4>2. \A k \in known : Delta(p, k) \in Int /\ Delta(p, k) >= 1
        BY <1>1, <1>9
      <4> QED
        BY <4>1, <4>2, MaxOfTwo
    <3>3. [k \in With(s) |-> Max({1, Delta(p, k)})] = [k \in With(s) |-> Delta(p, k)]
      BY <3>2
    <3>4. part[s] = SumFunction([k \in With(s) |-> Delta(p, k)])
      BY <2>1, <3>3
    <3>5. With(s) \in SUBSET K
      OBVIOUS
    <3> HIDE DEF With, A, key, part, K, delta
    <3> QED
      BY <1>2, <3>1, <3>4, <3>5
  <2> HIDE DEF A, key, part, I, K, delta
  <2>6. SumsByKey(delta, A, I, key, part)
    BY <2>4, <2>5 DEF SumsByKey
  <2>7. IsFiniteSet(A) /\ \A k \in A : delta[k] \in Int
    BY <1>1, <2>2, FS_Subset
  <2>8. SumFunctionOnSet(delta, A) = SumFunctionOnSet(part, I)
    BY <2>3, <2>6, <2>7, SumParts
  <2> QED
    BY <2>2, <2>8 DEF A, part, I
<1>10. ASSUME Positive, NEW f \in Frames(p)
       PROVE  /\ TotalValue(p, f) <= FlameValue(p, f)
              /\ OwnLabels(p, f) => TotalValue(p, f) = FlameValue(p, f)
  <2> DEFINE L == LabelsOf(p, f)
             A == OnStack(p, f)
             B == Shown(L)
  <2>1. TotalValue(p, f) = SumFunctionOnSet(delta, A) /\ A \subseteq K
    BY <1>1, <1>3
  <2>2. FlameValue(p, f) = SumFunctionOnSet(delta, B) /\ B \subseteq known
    <3>1. FlameValue(p, f) = SumFunctionOnSet(Folded(p),
                                 {s \in DOMAIN Folded(p) : Range(s) \cap L # {}})
      BY DEF FlameValue
    <3> HIDE DEF L, Shown, delta, known
    <3> QED
      BY <1>9, <1>10, <3>1
  <2>3. A \subseteq B
    <3> SUFFICES ASSUME NEW k \in A PROVE k \in B
      OBVIOUS
    <3>1. PICK n \in Range(Stack(p, p.samples[k])) : Frame(p, n) = f
      BY DEF OnStack
    <3>2. n \in Nodes(p) /\ Label(p, n) \in Range(Flame(p, k)) /\ k \in K
      BY <2>1, FlameIs
    <3>3. Label(p, n) \in L
      BY <3>1, <3>2 DEF LabelsOf
    <3> QED
      BY <3>2, <3>3
  <2>4. ASSUME OwnLabels(p, f) PROVE B \subseteq A
    <3> SUFFICES ASSUME NEW k \in B PROVE k \in A
      OBVIOUS
    <3>1. PICK l \in Range(Flame(p, k)) : l \in L
      OBVIOUS
    <3>2. k \in K
      OBVIOUS
    <3>3. PICK n \in Range(Stack(p, p.samples[k])) : l = Label(p, n)
      BY <3>1, <3>2, FlameIs
    <3>4. n \in Nodes(p)
      BY <3>2, <3>3, FlameIs
    <3>5. Frame(p, n) = f
      BY <2>4, <3>1, <3>3, <3>4 DEF OwnLabels
    <3> QED
      BY <3>2, <3>3, <3>5 DEF OnStack
  <2>5. IsFiniteSet(B) /\ \A k \in B : delta[k] \in Nat /\ delta[k] \in Int
    <3>1. IsFiniteSet(B)
      BY <1>1, <2>2, FS_Subset
    <3>2. \A k \in known : delta[k] \in Int /\ delta[k] >= 1
      BY <1>1, <1>10
    <3> HIDE DEF delta, known, B
    <3> QED
      BY <2>2, <3>1, <3>2
  <2> HIDE DEF A, B, delta
  <2>6. SumFunctionOnSet(delta, A) <= SumFunctionOnSet(delta, B)
    BY <2>3, <2>5, SumSubset
  <2>7. OwnLabels(p, f) => A = B
    BY <2>3, <2>4
  <2> QED
    BY <2>1, <2>2, <2>6, <2>7
<1>11. ASSUME Positive, NEW f \in Frames(p), SelfValue(p, f) > 0, NEW H \in Hotspots(p)
       PROVE  CutForLarger(f, H, [g \in Frames(p) |-> TotalValue(p, g)])
  <2> DEFINE F == {g \in Frames(p) : TotalValue(p, g) > 0}
             value == [g \in Frames(p) |-> <<TotalValue(p, g), SelfValue(p, g)>>]
             main == [g \in Frames(p) |-> TotalValue(p, g)]
  <2>1. TotalValue(p, f) > 0
    BY <1>8, <1>11
  <2>2. H \in Kept(F, value) /\ f \in F
    BY <1>11, <2>1 DEF Hotspots
  <2>3. IsFiniteSet(F)
    <3>1. IsFiniteSet(Frames(p))
      BY <1>1, FramesFinite
    <3> QED
      BY <3>1, FS_Subset
  <2>4. \A g \in F : value[g][1] = main[g] /\ main[g] \in Int
    BY <1>8, <1>11
  <2> HIDE DEF F, value, main
  <2>5. CutForLarger(f, H, main)
    BY <2>2, <2>3, <2>4, KeptIs
  <2> QED
    BY <2>5 DEF main
<1> QED
  BY <1>6, <1>7, <1>8, <1>10, <1>11 DEF CpuAttributed
---------------------------------------------------------------------------
(* The labelling.                                                            *)
Scores == [States -> Int]
Fits(hmm) ==
    /\ hmm.emission \in Seq(Scores) /\ hmm.emission # <<>>
    /\ hmm.initial \in Scores /\ hmm.transition \in [States -> Scores]

Row(hmm, t, before) ==
    [s \in States |->
        hmm.emission[t][s] +
        IF t = 1 THEN hmm.initial[s]
        ELSE LET b == Better(hmm, before, s) IN before[b] + hmm.transition[b][s]]

(* Scores and labels as the recurrences of viterbi have them.               *)
Follows(hmm, score, path) ==
    LET n == Len(hmm.emission)
    IN /\ score \in [1..n -> Scores]
       /\ \A t \in 1..n : score[t] = Row(hmm, t, score[t - 1])
       /\ path \in [1..n -> States]
       /\ \A t \in 1..n : path[t] = IF t = n THEN (IF score[n][1] > score[n][0] THEN 1 ELSE 0)
                                    ELSE Better(hmm, score[t], path[t + 1])

(* A row of scores has a score for each state.                              *)
LEMMA RowTyped ==
    ASSUME NEW hmm, Fits(hmm), NEW t \in 1..Len(hmm.emission), NEW before,
           t = 1 \/ before \in Scores
    PROVE  Row(hmm, t, before) \in Scores
<1>1. hmm.emission[t] \in Scores
  BY ElementOfSeq, LenProperties DEF Fits
<1>2. hmm.initial \in Scores /\ hmm.transition \in [States -> Scores]
  BY DEF Fits
<1>3. ASSUME NEW s \in States
      PROVE  hmm.emission[t][s] +
             (IF t = 1 THEN hmm.initial[s]
              ELSE LET b == Better(hmm, before, s) IN before[b] + hmm.transition[b][s]) \in Int
  <2>1. Better(hmm, before, s) \in States
    BY DEF Better, States
  <2> DEFINE b == Better(hmm, before, s)
  <2>2. hmm.emission[t][s] \in Int /\ hmm.initial[s] \in Int /\ hmm.transition[b][s] \in Int
    BY <1>1, <1>2, <2>1 DEF Scores
  <2>3. t # 1 => before[b] \in Int
    BY <2>1 DEF Scores
  <2> HIDE DEF b
  <2>4. hmm.emission[t][s] +
        (IF t = 1 THEN hmm.initial[s] ELSE before[b] + hmm.transition[b][s]) \in Int
    BY <2>2, <2>3
  <2> QED
    BY <2>4 DEF b
<1> QED
  BY <1>3 DEF Row, Scores

(* The two recurrences of viterbi are well-founded: there are scores and    *)
(* labels that satisfy them.                                                *)
LEMMA ViterbiIs ==
    ASSUME NEW hmm, Fits(hmm)
    PROVE  \E score : Follows(hmm, score, viterbi(hmm))
<1> DEFINE n == Len(hmm.emission)
           rows(g) == [t \in 1..n |-> Row(hmm, t, g[t - 1])]
           score == CHOOSE g : g = rows(g)
           Chosen(t, next) == IF t = n THEN (IF score[n][1] > score[n][0] THEN 1 ELSE 0)
                              ELSE Better(hmm, score[t], next)
           labels(g) == [t \in 1..n |-> IF t = n THEN (IF score[n][1] > score[n][0] THEN 1 ELSE 0)
                                        ELSE Better(hmm, score[t], g[t + 1])]
           path == CHOOSE g : g = labels(g)
<1>1. viterbi(hmm) = path
  BY DEF viterbi, Row
<1>2. n \in Nat /\ n # 0
  <2>1. hmm.emission \in Seq(Scores) /\ hmm.emission # <<>>
    BY DEF Fits
  <2> QED
    BY <2>1, EmptySeq, LenProperties
<1> HIDE DEF n
<1>3. \E g \in [1..n -> Scores] : g = rows(g)
  <2> DEFINE Is(f, m) == f \in [1..m -> Scores]
                         /\ \A k \in 1..m : f[k] = Row(hmm, k, f[k - 1])
             T == {m \in Nat : m <= n => \E f : Is(f, m)}
  <2>1. 0 \in T
    <3>1. Is([k \in 1..0 |-> 0], 0)
      OBVIOUS
    <3> HIDE DEF Is
    <3> QED
      BY <3>1
  <2>2. ASSUME NEW m \in Nat, m \in T PROVE m + 1 \in T
    <3> SUFFICES ASSUME m + 1 <= n PROVE \E f : Is(f, m + 1)
      OBVIOUS
    <3>1. m <= n
      BY <1>2
    <3>2. PICK f : Is(f, m)
      BY <2>2, <3>1
    <3> DEFINE last == Row(hmm, m + 1, f[m])
               g == [k \in 1..m + 1 |-> IF k <= m THEN f[k] ELSE last]
    <3>3. last \in Scores
      <4>1. m + 1 \in 1..n /\ (m + 1 = 1 \/ f[m] \in Scores)
        BY <1>2, <3>2
      <4> QED
        BY <4>1, RowTyped DEF n
    <3> HIDE DEF last
    <3>4. g \in [1..m + 1 -> Scores]
      BY <3>2, <3>3
    <3>5. ASSUME NEW k \in 1..m + 1 PROVE g[k] = Row(hmm, k, g[k - 1])
      <4>1. CASE k = 1
        <5>1. \A x, y : Row(hmm, 1, x) = Row(hmm, 1, y)
          BY DEF Row
        <5>2. CASE m = 0
          BY <4>1, <5>1, <5>2 DEF last
        <5>3. CASE m # 0
          <6>1. 1 \in 1..m /\ g[k] = f[1]
            BY <4>1, <5>3
          <6>2. f[1] = Row(hmm, 1, f[1 - 1])
            BY <3>2, <6>1
          <6> QED
            BY <4>1, <5>1, <6>1, <6>2
        <5> QED
          BY <5>2, <5>3
      <4>2. CASE k # 1 /\ k <= m
        <5>1. k \in 1..m /\ k - 1 \in 1..m
          BY <4>2
        <5>2. g[k] = f[k] /\ g[k - 1] = f[k - 1]
          BY <4>2, <5>1
        <5> QED
          BY <3>2, <5>1, <5>2
      <4>3. CASE k # 1 /\ k = m + 1
        <5>1. k - 1 = m /\ m \in 1..m
          BY <4>3
        <5>2. g[k] = last /\ g[k - 1] = f[m]
          BY <4>3, <5>1
        <5> QED
          BY <4>3, <5>2 DEF last
      <4> QED
        BY <4>1, <4>2, <4>3
    <3> HIDE DEF g
    <3> QED
      BY <3>4, <3>5
  <2>3. n \in T
    <3> HIDE DEF T
    <3> QED
      BY <1>2, <2>1, <2>2, NatInductive
  <2>4. PICK f : Is(f, n)
    BY <1>2, <2>3
  <2>5. f = rows(f) /\ f \in [1..n -> Scores]
    BY <2>4
  <2> HIDE DEF rows, Is
  <2> QED
    BY <2>5
<1>4. score = rows(score)
  <2> HIDE DEF rows
  <2> QED
    BY <1>3
<1> HIDE DEF score
<1>5. \A t \in 1..n : score[t] = Row(hmm, t, score[t - 1])
  BY <1>4
<1>6. \A t \in 1..n : score[t] \in Scores
  <2> DEFINE T == {t \in Nat : t \in 1..n => score[t] \in Scores}
  <2>1. 0 \in T
    OBVIOUS
  <2>2. ASSUME NEW t \in Nat, t \in T PROVE t + 1 \in T
    <3> SUFFICES ASSUME t + 1 \in 1..n PROVE score[t + 1] \in Scores
      OBVIOUS
    <3>1. t + 1 = 1 \/ score[t] \in Scores
      BY <1>2, <2>2
    <3>2. (t + 1) - 1 = t
      OBVIOUS
    <3>3. score[t + 1] = Row(hmm, t + 1, score[t])
      BY <1>5, <3>2
    <3> QED
      BY <3>1, <3>3, RowTyped DEF n
  <2>3. Nat \subseteq T
    <3> HIDE DEF T
    <3> QED
      BY <2>1, <2>2, NatInductive
  <2> QED
    BY <1>2, <2>3
<1>7. score \in [1..n -> Scores]
  BY <1>4, <1>6
<1>8. \A t, next : Chosen(t, next) \in States
  BY DEF Better, States
<1>9. \E g : g = labels(g)
  <2> DEFINE Is(f, m) == f \in [n - m..n -> States]
                         /\ \A t \in n - m..n : f[t] = Chosen(t, f[t + 1])
             T == {m \in Nat : m < n => \E f : Is(f, m)}
  <2>1. 0 \in T
    <3> DEFINE f == [t \in n..n |-> Chosen(t, 0)]
    <3>1. \A x, y : Chosen(n, x) = Chosen(n, y)
      OBVIOUS
    <3>2. n - 0 = n /\ \A t \in n..n : t = n
      BY <1>2
    <3> HIDE DEF Chosen
    <3>3. f \in [n..n -> States]
      BY <1>8
    <3>4. \A t \in n..n : f[t] = Chosen(t, f[t + 1])
      BY <3>1, <3>2
    <3>5. Is(f, 0)
      BY <3>2, <3>3, <3>4
    <3> HIDE DEF f, Is
    <3> QED
      BY <3>5
  <2>2. ASSUME NEW m \in Nat, m \in T PROVE m + 1 \in T
    <3> SUFFICES ASSUME m + 1 < n PROVE \E f : Is(f, m + 1)
      OBVIOUS
    <3>1. m < n
      BY <1>2
    <3>2. PICK f : Is(f, m)
      BY <2>2, <3>1
    <3> DEFINE from == n - m
               to == n - (m + 1)
               first == Chosen(to, f[from])
               g == [t \in to..n |-> IF t = to THEN first ELSE f[t]]
    <3>3. /\ from \in Int /\ to \in Int /\ to + 1 = from /\ from <= n
          /\ \A t \in to..n : t = to \/ t \in from..n
          /\ \A t \in from..n : t # to /\ t \in to..n
      BY <1>2, <3>1
    <3>4. f \in [from..n -> States] /\ \A t \in from..n : f[t] = Chosen(t, f[t + 1])
      BY <3>2
    <3>5. first \in States
      BY <1>8
    <3>6. \A x, y : Chosen(n, x) = Chosen(n, y)
      OBVIOUS
    <3> HIDE DEF first, from, to, Chosen
    <3>7. g \in [to..n -> States]
      BY <3>3, <3>4, <3>5
    <3>8. ASSUME NEW t \in to..n PROVE g[t] = Chosen(t, g[t + 1])
      <4>1. CASE t = to
        <5>1. t + 1 = from /\ from \in from..n
          BY <1>2, <3>3, <4>1
        <5>2. g[t + 1] = f[from] /\ g[t] = first
          BY <3>3, <4>1, <5>1
        <5> QED
          BY <4>1, <5>2 DEF first
      <4>2. CASE t \in from..n /\ t # n
        <5>1. t + 1 \in from..n
          BY <1>2, <3>3, <4>2
        <5>2. g[t] = f[t] /\ g[t + 1] = f[t + 1]
          BY <3>3, <4>2, <5>1
        <5> QED
          BY <3>4, <4>2, <5>2
      <4>3. CASE t \in from..n /\ t = n
        <5>1. g[t] = f[t]
          BY <3>3, <4>3
        <5> QED
          BY <3>4, <3>6, <4>3, <5>1
      <4> QED
        BY <3>3, <4>1, <4>2, <4>3
    <3>9. Is(g, m + 1)
      BY <3>7, <3>8 DEF to
    <3> HIDE DEF g, Is
    <3> QED
      BY <3>9
  <2>3. n - 1 \in T
    <3> HIDE DEF T
    <3> QED
      BY <1>2, <2>1, <2>2, NatInductive
  <2>4. PICK f : Is(f, n - 1)
    BY <1>2, <2>3
  <2>5. n - (n - 1) = 1
    BY <1>2
  <2>6. f = labels(f)
    BY <2>4, <2>5
  <2> HIDE DEF labels, Is
  <2> QED
    BY <2>6
<1>10. path = labels(path)
  <2> HIDE DEF labels
  <2> QED
    BY <1>9
<1> HIDE DEF path
<1>11. \A t \in 1..n : path[t] = IF t = n THEN (IF score[n][1] > score[n][0] THEN 1 ELSE 0)
                                 ELSE Better(hmm, score[t], path[t + 1])
  BY <1>10
<1>12. path \in [1..n -> States]
  <2>1. \A t \in 1..n : path[t] = Chosen(t, path[t + 1])
    BY <1>11
  <2>2. \A t \in 1..n : path[t] \in States
    <3> HIDE DEF Chosen
    <3> QED
      BY <1>8, <2>1
  <2> QED
    BY <1>10, <2>2
<1>13. Follows(hmm, score, path)
  BY <1>5, <1>7, <1>11, <1>12 DEF Follows, n
<1> QED
  BY <1>1, <1>13
---------------------------------------------------------------------------
(* What a labelling gains at time t.                                         *)
Gain(hmm, q, t) ==
    hmm.emission[t][q[t]] + IF t = 1 THEN 0 ELSE hmm.transition[q[t - 1]][q[t]]

(* Each score is the best that a step can give,                             *)
Reaches(hmm, score, t, b) ==
    /\ \A a \in States :
          score[t][a] + (hmm.emission[t + 1][b] + hmm.transition[a][b]) <= score[t + 1][b]
    /\ LET a == Better(hmm, score[t], b)
       IN score[t][a] + (hmm.emission[t + 1][b] + hmm.transition[a][b]) = score[t + 1][b]

(* Each score is the best that a step from the scores before it can give.   *)
LEMMA ScoreStep ==
    ASSUME NEW hmm, Fits(hmm), NEW score, NEW path, Follows(hmm, score, path),
           NEW t \in 1..Len(hmm.emission), t + 1 \in 1..Len(hmm.emission), NEW b \in States
    PROVE  Reaches(hmm, score, t, b)
<1> DEFINE before == score[t]
           c == Better(hmm, before, b)
           e == hmm.emission[t + 1][b]
<1>0. t \in Int /\ t + 1 # 1 /\ (t + 1) - 1 = t
  OBVIOUS
<1>1. before \in Scores /\ score[t + 1] = Row(hmm, t + 1, before)
  BY <1>0 DEF Follows
<1>2. hmm.emission[t + 1] \in Scores
  BY ElementOfSeq, LenProperties DEF Fits
<1>3. e \in Int
  BY <1>2 DEF Scores
<1>4. 0 \in States /\ 1 \in States /\ \A a \in States : a = 0 \/ a = 1
  BY DEF States
<1>5. \A a \in States : before[a] \in Int /\ hmm.transition[a][b] \in Int
  BY <1>1 DEF Scores, Fits
<1>6. score[t + 1][b] = e + (before[c] + hmm.transition[c][b])
  BY <1>0, <1>1 DEF Row
<1>7. c \in States
  BY <1>4 DEF Better
<1>8. c = IF before[1] + hmm.transition[1][b] > before[0] + hmm.transition[0][b] THEN 1 ELSE 0
  BY DEF Better
<1> HIDE DEF before, c, e
<1>9. \A a \in States : before[a] + (e + hmm.transition[a][b]) <= score[t + 1][b]
  <2> DEFINE x == before[0]
             y == before[1]
             v == hmm.transition[0][b]
             w == hmm.transition[1][b]
  <2>1. x \in Int /\ y \in Int /\ v \in Int /\ w \in Int
    BY <1>4, <1>5
  <2>2. CASE c = 1
    <3>1. y + w > x + v /\ score[t + 1][b] = e + (y + w)
      BY <1>6, <1>8, <2>2
    <3> HIDE DEF x, y, v, w
    <3>2. x + (e + v) <= score[t + 1][b] /\ y + (e + w) <= score[t + 1][b]
      BY <1>3, <2>1, <3>1
    <3> QED
      BY <1>4, <3>2 DEF x, y, v, w
  <2>3. CASE c = 0
    <3>1. ~(y + w > x + v) /\ score[t + 1][b] = e + (x + v)
      BY <1>6, <1>8, <2>3
    <3> HIDE DEF x, y, v, w
    <3>2. x + (e + v) <= score[t + 1][b] /\ y + (e + w) <= score[t + 1][b]
      BY <1>3, <2>1, <3>1
    <3> QED
      BY <1>4, <3>2 DEF x, y, v, w
  <2> QED
    BY <1>4, <1>7, <2>2, <2>3
<1>10. before[c] + (e + hmm.transition[c][b]) = score[t + 1][b]
  <2>1. before[c] \in Int /\ hmm.transition[c][b] \in Int
    BY <1>5, <1>7
  <2> QED
    BY <1>3, <1>6, <2>1
<1> QED
  BY <1>9, <1>10 DEF Reaches, before, c, e

(* What the first m labels gain.                                             *)
Prefix(hmm, q, m) ==
    hmm.initial[q[1]] + SumFunctionOnSet([t \in DOMAIN q |-> Gain(hmm, q, t)], 1..m)

(* What a labelling gains, label by label, up to its score.                 *)
LEMMA PrefixSteps ==
    ASSUME NEW hmm, Fits(hmm), NEW q \in [1..Len(hmm.emission) -> States]
    PROVE  /\ \A t \in 1..Len(hmm.emission) :
                 Gain(hmm, q, t) \in Int /\ Prefix(hmm, q, t) \in Int
           /\ Prefix(hmm, q, 1) = hmm.initial[q[1]] + hmm.emission[1][q[1]]
           /\ \A t \in 1..Len(hmm.emission) : t + 1 \in 1..Len(hmm.emission) =>
                 Prefix(hmm, q, t + 1) = Prefix(hmm, q, t) + Gain(hmm, q, t + 1)
           /\ Prefix(hmm, q, Len(hmm.emission)) = Score(hmm, q)
<1> DEFINE n == Len(hmm.emission)
           f == [t \in DOMAIN q |-> Gain(hmm, q, t)]
<1>0. DOMAIN q = 1..n
  OBVIOUS
<1>1. n \in Nat /\ n # 0
  BY EmptySeq, LenProperties DEF Fits
<1>2. \A t \in 1..n : hmm.emission[t] \in Scores
  BY ElementOfSeq, LenProperties DEF Fits
<1> HIDE DEF n
<1>3. 1 \in 1..n /\ \A t \in 1..n : t # 1 => t - 1 \in 1..n
  BY <1>1
<1>4. ASSUME NEW t \in 1..n PROVE Gain(hmm, q, t) \in Int
  <2>1. q[t] \in States /\ hmm.emission[t][q[t]] \in Int
    BY <1>0, <1>2 DEF Scores, n
  <2>2. t # 1 => q[t - 1] \in States /\ hmm.transition[q[t - 1]][q[t]] \in Int
    BY <1>3, <2>1 DEF Scores, Fits, n
  <2> QED
    BY <2>1, <2>2 DEF Gain
<1>5. hmm.initial[q[1]] \in Int
  BY <1>3 DEF Scores, Fits, n
<1>6. \A t \in 1..n : f[t] = Gain(hmm, q, t) /\ f[t] \in Int
  BY <1>0, <1>4
<1> HIDE DEF f
<1>7. ASSUME NEW t \in 1..n PROVE SumFunctionOnSet(f, 1..t) \in Int /\ IsFiniteSet(1..t)
                                  /\ \A k \in 1..t : f[k] \in Int
  <2>1. IsFiniteSet(1..t) /\ \A k \in 1..t : f[k] \in Int
    BY <1>1, <1>6, FS_Interval
  <2> QED
    BY <2>1, SumBasics
<1>8. \A t \in 1..n : Prefix(hmm, q, t) \in Int
  BY <1>5, <1>7 DEF Prefix, f
<1>9. Prefix(hmm, q, 1) = hmm.initial[q[1]] + hmm.emission[1][q[1]]
  <2>1. 1..1 = {1}
    OBVIOUS
  <2>2. SumFunctionOnSet(f, {1}) = f[1]
    BY <1>3, <1>6, SumSingle
  <2>3. q[1] \in States /\ hmm.emission[1][q[1]] \in Int
    BY <1>2, <1>3 DEF Scores, n
  <2>4. f[1] = hmm.emission[1][q[1]]
    BY <1>3, <1>6, <2>3 DEF Gain
  <2>5. Prefix(hmm, q, 1) = hmm.initial[q[1]] + SumFunctionOnSet(f, 1..1)
    BY DEF Prefix, f
  <2> QED
    BY <2>1, <2>2, <2>4, <2>5
<1>10. ASSUME NEW t \in 1..n, t + 1 \in 1..n
       PROVE  Prefix(hmm, q, t + 1) = Prefix(hmm, q, t) + Gain(hmm, q, t + 1)
  <2> DEFINE S == 1..t
             x == t + 1
  <2>1. x \notin S /\ S \cup {x} = 1..(t + 1)
    OBVIOUS
  <2>2. IsFiniteSet(S) /\ (\A k \in S : f[k] \in Int) /\ SumFunctionOnSet(f, S) \in Int
    BY <1>7
  <2>3. f[x] \in Int /\ f[x] = Gain(hmm, q, t + 1)
    BY <1>6, <1>10
  <2> HIDE DEF S, x
  <2>4. SumFunctionOnSet(f, S \cup {x}) = f[x] + SumFunctionOnSet(f, S)
    BY <2>1, <2>2, <2>3, SumAdd
  <2>5. Prefix(hmm, q, t + 1) = hmm.initial[q[1]] + SumFunctionOnSet(f, S \cup {x})
    BY <2>1 DEF Prefix, f
  <2>6. Prefix(hmm, q, t) = hmm.initial[q[1]] + SumFunctionOnSet(f, S)
    BY DEF Prefix, f, S
  <2> QED
    BY <1>5, <2>2, <2>3, <2>4, <2>5, <2>6
<1>11. Prefix(hmm, q, n) = Score(hmm, q)
  BY <1>0 DEF Prefix, Score, Gain, SumFunction
<1> QED
  BY <1>4, <1>8, <1>9, <1>10, <1>11 DEF n

(* No labelling is more probable than that of viterbi.                       *)
LEMMA ViterbiBest ==
    ASSUME NEW hmm, Fits(hmm), NEW q \in [1..Len(hmm.emission) -> States]
    PROVE  /\ viterbi(hmm) \in [1..Len(hmm.emission) -> States]
           /\ Score(hmm, q) <= Score(hmm, viterbi(hmm))
<1> DEFINE n == Len(hmm.emission)
           path == viterbi(hmm)
<1>1. PICK score : Follows(hmm, score, path)
  BY ViterbiIs
<1>2. n \in Nat /\ n # 0
  BY EmptySeq, LenProperties DEF Fits
<1>3. /\ path \in [1..n -> States] /\ score \in [1..n -> Scores]
      /\ \A t \in 1..n : score[t] = Row(hmm, t, score[t - 1])
      /\ path[n] = IF score[n][1] > score[n][0] THEN 1 ELSE 0
      /\ \A t \in 1..n : t # n => path[t] = Better(hmm, score[t], path[t + 1])
  BY <1>1, <1>2 DEF Follows
<1>4. \A t \in 1..n, b \in States : t + 1 \in 1..n => Reaches(hmm, score, t, b)
  BY <1>1, ScoreStep
<1>5. \A b \in States : score[1][b] = hmm.emission[1][b] + hmm.initial[b]
  <2>1. score[1] = Row(hmm, 1, score[1 - 1])
    BY <1>2, <1>3
  <2> QED
    BY <2>1 DEF Row
<1>6. \A t \in 1..n, b \in States : score[t][b] \in Int
  BY <1>3 DEF Scores
<1>7. \A b \in States : hmm.emission[1][b] \in Int /\ hmm.initial[b] \in Int
  BY <1>2, ElementOfSeq, LenProperties DEF Fits, Scores
<1> HIDE DEF path
<1>8. ASSUME NEW r \in [1..n -> States]
      PROVE  /\ \A t \in 1..n : Gain(hmm, r, t) \in Int /\ Prefix(hmm, r, t) \in Int
             /\ Prefix(hmm, r, 1) = hmm.initial[r[1]] + hmm.emission[1][r[1]]
             /\ \A t \in 1..n : t + 1 \in 1..n =>
                   Prefix(hmm, r, t + 1) = Prefix(hmm, r, t) + Gain(hmm, r, t + 1)
             /\ Prefix(hmm, r, n) = Score(hmm, r)
  BY PrefixSteps
<1> HIDE DEF n
<1>9. \A r \in [1..n -> States] : Prefix(hmm, r, 1) = score[1][r[1]]
  <2> SUFFICES ASSUME NEW r \in [1..n -> States] PROVE Prefix(hmm, r, 1) = score[1][r[1]]
    OBVIOUS
  <2>1. r[1] \in States
    BY <1>2
  <2>2. Prefix(hmm, r, 1) = hmm.initial[r[1]] + hmm.emission[1][r[1]]
    BY <1>8
  <2>3. score[1][r[1]] = hmm.emission[1][r[1]] + hmm.initial[r[1]]
    BY <1>5, <2>1
  <2>4. hmm.emission[1][r[1]] \in Int /\ hmm.initial[r[1]] \in Int
    BY <1>7, <2>1
  <2> QED
    BY <2>2, <2>3, <2>4
<1>10. ASSUME NEW r \in [1..n -> States], NEW t \in 1..n, t + 1 \in 1..n
       PROVE  /\ Prefix(hmm, r, t) <= score[t][r[t]]
                   => Prefix(hmm, r, t + 1) <= score[t + 1][r[t + 1]]
              /\ Prefix(hmm, r, t) = score[t][r[t]] /\ r[t] = Better(hmm, score[t], r[t + 1])
                   => Prefix(hmm, r, t + 1) = score[t + 1][r[t + 1]]
  <2> DEFINE a == r[t]
             b == r[t + 1]
             g == hmm.emission[t + 1][b] + hmm.transition[a][b]
             P == Prefix(hmm, r, t)
             next == Prefix(hmm, r, t + 1)
  <2>1. a \in States /\ b \in States /\ (t + 1) - 1 = t /\ t + 1 # 1
    BY <1>10
  <2>2. g = Gain(hmm, r, t + 1)
    BY <2>1 DEF Gain
  <2>3. g \in Int /\ P \in Int /\ next = P + g
    BY <1>8, <1>10, <2>2
  <2>4. score[t][a] \in Int /\ score[t + 1][b] \in Int
    BY <1>6, <1>10, <2>1
  <2>5. score[t][a] + g <= score[t + 1][b]
    BY <1>4, <1>10, <2>1 DEF Reaches
  <2>6. a = Better(hmm, score[t], b) => score[t][a] + g = score[t + 1][b]
    BY <1>4, <1>10, <2>1 DEF Reaches
  <2> HIDE DEF a, b, g, P, next
  <2>7. /\ P <= score[t][a] => next <= score[t + 1][b]
        /\ P = score[t][a] /\ a = Better(hmm, score[t], b) => next = score[t + 1][b]
    BY <2>3, <2>4, <2>5, <2>6
  <2> QED
    BY <2>7 DEF a, b, P, next
<1>11. \A t \in 1..n : Prefix(hmm, q, t) <= score[t][q[t]]
                       /\ Prefix(hmm, path, t) = score[t][path[t]]
  <2>0. q \in [1..n -> States]
    BY DEF n
  <2> DEFINE T == {t \in Nat : t \in 1..n => /\ Prefix(hmm, q, t) <= score[t][q[t]]
                                             /\ Prefix(hmm, path, t) = score[t][path[t]]}
  <2>1. 0 \in T
    OBVIOUS
  <2>2. ASSUME NEW t \in Nat, t \in T PROVE t + 1 \in T
    <3> SUFFICES ASSUME t + 1 \in 1..n
                 PROVE  /\ Prefix(hmm, q, t + 1) <= score[t + 1][q[t + 1]]
                        /\ Prefix(hmm, path, t + 1) = score[t + 1][path[t + 1]]
      OBVIOUS
    <3>1. CASE t = 0
      <4>1. q[1] \in States /\ score[1][q[1]] \in Int
        BY <1>2, <1>6, <2>0
      <4>2. /\ Prefix(hmm, q, 1) = score[1][q[1]]
            /\ Prefix(hmm, path, 1) = score[1][path[1]]
        BY <1>3, <1>9, <2>0
      <4>3. t + 1 = 1
        BY <3>1
      <4>4. Prefix(hmm, q, 1) <= score[1][q[1]]
        BY <4>1, <4>2
      <4> QED
        BY <4>2, <4>3, <4>4
    <3>2. CASE t # 0
      <4>1. t \in 1..n /\ t # n
        BY <1>2, <3>2
      <4>2. /\ Prefix(hmm, q, t) <= score[t][q[t]]
            /\ Prefix(hmm, path, t) = score[t][path[t]]
        BY <2>2, <4>1
      <4>3. path[t] = Better(hmm, score[t], path[t + 1])
        BY <1>3, <4>1
      <4> QED
        BY <1>3, <1>10, <2>0, <4>1, <4>2, <4>3
    <3> QED
      BY <3>1, <3>2
  <2>3. Nat \subseteq T
    <3> HIDE DEF T
    <3> QED
      BY <2>1, <2>2, NatInductive
  <2> QED
    BY <1>2, <2>3
<1>12. n \in 1..n /\ q \in [1..n -> States]
  BY <1>2 DEF n
<1>13. score[n][q[n]] <= score[n][path[n]]
  <2>1. score[n][0] \in Int /\ score[n][1] \in Int
    BY <1>6, <1>12 DEF States
  <2>2. q[n] = 0 \/ q[n] = 1
    BY <1>12 DEF States
  <2>3. CASE score[n][1] > score[n][0]
    BY <1>3, <2>1, <2>2, <2>3
  <2>4. CASE ~(score[n][1] > score[n][0])
    BY <1>3, <2>1, <2>2, <2>4
  <2> QED
    BY <2>3, <2>4
<1>14. Score(hmm, q) <= Score(hmm, path)
  <2>1. /\ Score(hmm, q) = Prefix(hmm, q, n) /\ Score(hmm, path) = Prefix(hmm, path, n)
        /\ Prefix(hmm, q, n) \in Int /\ score[n][q[n]] \in Int /\ score[n][path[n]] \in Int
    BY <1>3, <1>6, <1>8, <1>12
  <2> QED
    BY <1>11, <1>12, <1>13, <2>1
<1> QED
  BY <1>3, <1>14 DEF n, path
---------------------------------------------------------------------------
Squared(f, A) == SumFunctionOnSet([t \in A |-> f[t] * f[t]], A)

(* The spread of numbers: from one value,                                   *)
From(f, A, v) ==
    Squared(f, A) - 2 * (SumFunctionOnSet(f, A) * v)
    + Cardinality(A) * (v * v)

(* and from each other: as many times their squares as there are, less the  *)
(* square of their sum.                                                      *)
Apart(f, A) ==
    Cardinality(A) * Squared(f, A)
    - SumFunctionOnSet(f, A) * SumFunctionOnSet(f, A)

(* How the two measures of spread grow with one more number.                *)
LEMMA Identities ==
    ASSUME NEW n \in Int, NEW q \in Int, NEW s \in Int, NEW u \in Int, NEW v \in Int
    PROVE  /\ (u * u + q) - 2 * ((u + s) * v) + (n + 1) * (v * v)
              = (q - 2 * (s * v) + n * (v * v)) + (u - v) * (u - v)
           /\ (n + 1) * (v * v + q) - (v + s) * (v + s)
              = (n * q - s * s) + (q - 2 * (s * v) + n * (v * v))
OBVIOUS

(* A square is never negative, and 0 only of 0.                             *)
LEMMA SquareSign ==
    ASSUME NEW x \in Int
    PROVE  x * x \in Int /\ x * x >= 0 /\ (x * x = 0 => x = 0)
OBVIOUS

(* How a sum, a sum of squares and a count grow with one more.              *)
Grows(f, A, x) ==
    /\ Squared(f, A) \in Int /\ SumFunctionOnSet(f, A) \in Int /\ Cardinality(A) \in Int
    /\ f[x] \in Int
    /\ Squared(f, A \cup {x}) = f[x] * f[x] + Squared(f, A)
    /\ SumFunctionOnSet(f, A \cup {x}) = f[x] + SumFunctionOnSet(f, A)
    /\ Cardinality(A \cup {x}) = Cardinality(A) + 1

(* A sum, a sum of squares and a count with one more.                       *)
LEMMA OneMore ==
    ASSUME NEW A, IsFiniteSet(A), NEW x, x \notin A, NEW f, \A t \in A \cup {x} : f[t] \in Int
    PROVE  Grows(f, A, x)
<1> DEFINE B == A \cup {x}
           sq == [t \in B |-> f[t] * f[t]]
           sqA == [t \in A |-> f[t] * f[t]]
<1>1. IsFiniteSet(B) /\ Cardinality(B) = Cardinality(A) + 1 /\ Cardinality(A) \in Nat
  BY FS_AddElement, FS_CardinalityType
<1>2. \A t \in B : sq[t] = f[t] * f[t] /\ f[t] \in Int
  OBVIOUS
<1>3. \A t \in B : sq[t] \in Int
  BY <1>2, SquareSign
<1>4. \A t \in A : sq[t] \in Int /\ sqA[t] = sq[t]
  BY <1>3
<1>5. x \in B /\ \A t \in A : t \in B
  OBVIOUS
<1>6. SumFunctionOnSet(f, B) = f[x] + SumFunctionOnSet(f, A)
  BY SumAdd
<1> HIDE DEF sqA
<1>7. SumFunctionOnSet(sqA, A) = SumFunctionOnSet(sq, A)
  <2> HIDE DEF sq
  <2> QED
    BY <1>4, SumSame
<1>8. SumFunctionOnSet(sq, B) = sq[x] + SumFunctionOnSet(sq, A)
  <2> HIDE DEF sq
  <2> QED
    BY <1>3, <1>4, <1>5, SumAdd DEF B
<1>9. SumFunctionOnSet(sq, A) \in Int /\ SumFunctionOnSet(f, A) \in Int
  <2> HIDE DEF sq
  <2> QED
    BY <1>2, <1>4, <1>5, SumBasics
<1> QED
  BY <1>1, <1>2, <1>5, <1>6, <1>7, <1>8, <1>9 DEF sqA, Grows, Squared

(* The spread from a value is not negative, and 0 only if all have it.      *)
LEMMA FromSign ==
    ASSUME NEW S, IsFiniteSet(S), NEW f, \A t \in S : f[t] \in Int, NEW v \in Int
    PROVE  From(f, S, v) \in Int /\ From(f, S, v) >= 0
           /\ (From(f, S, v) = 0 => \A t \in S : f[t] = v)
<1> DEFINE T == {A \in SUBSET S : /\ From(f, A, v) \in Int /\ From(f, A, v) >= 0
                                  /\ From(f, A, v) = 0 => \A t \in A : f[t] = v}
<1>1. {} \in T
  <2> DEFINE sq == [t \in {} |-> f[t] * f[t]]
  <2>1. \A t \in {} : sq[t] \in Int /\ f[t] \in Int
    OBVIOUS
  <2> HIDE DEF sq
  <2>2. SumFunctionOnSet(sq, {}) = 0 /\ SumFunctionOnSet(f, {}) = 0 /\ Cardinality({}) = 0
    BY <2>1, FS_EmptySet, SumBasics
  <2>3. 0 - 2 * (0 * v) + 0 * (v * v) = 0
    OBVIOUS
  <2>4. From(f, {}, v) = 0
    BY <2>2, <2>3 DEF From, Squared, sq
  <2> QED
    BY <2>4
<1>2. ASSUME NEW A \in SUBSET S, NEW x \in S, A \in T, x \notin A PROVE A \cup {x} \in T
  <2> DEFINE B == A \cup {x}
             d == f[x] - v
  <2>1. IsFiniteSet(A) /\ \A t \in A \cup {x} : f[t] \in Int
    BY FS_Subset
  <2>2. d \in Int /\ d * d \in Int /\ d * d >= 0 /\ (d * d = 0 => d = 0)
    <3>1. d \in Int
      BY <2>1
    <3> HIDE DEF d
    <3> QED
      BY <3>1, SquareSign
  <2>3. From(f, B, v) = From(f, A, v) + d * d
    <3> DEFINE q == Squared(f, A)
               s == SumFunctionOnSet(f, A)
               n == Cardinality(A)
               u == f[x]
    <3>1. /\ q \in Int /\ s \in Int /\ n \in Int /\ u \in Int
          /\ Squared(f, B) = u * u + q
          /\ SumFunctionOnSet(f, B) = u + s /\ Cardinality(B) = n + 1
      BY <1>2, <2>1, OneMore DEF Grows
    <3>2. From(f, B, v) = (u * u + q) - 2 * ((u + s) * v) + (n + 1) * (v * v)
      <4> HIDE DEF q, s, n, u, B
      <4> QED
        BY <3>1 DEF From
    <3>3. From(f, A, v) = q - 2 * (s * v) + n * (v * v)
      BY DEF From
    <3> HIDE DEF q, s, n
    <3>4. (u * u + q) - 2 * ((u + s) * v) + (n + 1) * (v * v)
          = (q - 2 * (s * v) + n * (v * v)) + (u - v) * (u - v)
      <4> HIDE DEF u
      <4> QED
        BY <3>1, Identities
    <3> QED
      BY <3>2, <3>3, <3>4
  <2>4. From(f, A, v) \in Int /\ From(f, A, v) >= 0 /\ (From(f, A, v) = 0 => \A t \in A : f[t] = v)
    BY <1>2
  <2>5. d = 0 => f[x] = v
    BY <2>1
  <2> HIDE DEF B, d
  <2>6. /\ From(f, B, v) \in Int /\ From(f, B, v) >= 0
        /\ From(f, B, v) = 0 => From(f, A, v) = 0 /\ d = 0
    BY <2>2, <2>3, <2>4
  <2>7. From(f, B, v) = 0 => \A t \in B : f[t] = v
    BY <2>4, <2>5, <2>6 DEF B
  <2> QED
    BY <2>6, <2>7 DEF B
<1>3. SUBSET S \subseteq T
  <2> HIDE DEF T
  <2> QED
    BY <1>1, <1>2, FiniteInductive
<1> QED
  BY <1>3

(* With one more number the spread grows by that from it.                   *)
LEMMA ApartGrows ==
    ASSUME NEW A, IsFiniteSet(A), NEW x, x \notin A, NEW f, \A t \in A \cup {x} : f[t] \in Int
    PROVE  Apart(f, A \cup {x}) = Apart(f, A) + From(f, A, f[x])
           /\ Apart(f, A) \in Int
<1> DEFINE B == A \cup {x}
           q == Squared(f, A)
           s == SumFunctionOnSet(f, A)
           n == Cardinality(A)
           v == f[x]
<1>1. /\ q \in Int /\ s \in Int /\ n \in Int /\ v \in Int
      /\ Squared(f, B) = v * v + q
      /\ SumFunctionOnSet(f, B) = v + s /\ Cardinality(B) = n + 1
  BY OneMore DEF Grows
<1>2. Apart(f, B) = (n + 1) * (v * v + q) - (v + s) * (v + s)
  <2> HIDE DEF q, s, n, v, B
  <2> QED
    BY <1>1 DEF Apart
<1>3. Apart(f, A) = n * q - s * s /\ From(f, A, v) = q - 2 * (s * v) + n * (v * v)
  BY DEF Apart, From
<1> HIDE DEF q, s, n
<1>4. (n + 1) * (v * v + q) - (v + s) * (v + s)
      = (n * q - s * s) + (q - 2 * (s * v) + n * (v * v)) /\ n * q - s * s \in Int
  <2> HIDE DEF v
  <2> QED
    BY <1>1, Identities
<1> QED
  BY <1>2, <1>3, <1>4

(* No numbers are nearer than equal ones.                                    *)
LEMMA ApartSign ==
    ASSUME NEW S, IsFiniteSet(S), NEW f, \A t \in S : f[t] \in Int
    PROVE  Apart(f, S) \in Int /\ Apart(f, S) >= 0
           /\ (Apart(f, S) = 0 => \A t, u \in S : f[t] = f[u])
<1> DEFINE T == {A \in SUBSET S : Apart(f, A) \in Int /\ Apart(f, A) >= 0}
<1>0. ASSUME NEW A \in SUBSET S, NEW x \in S, x \notin A
      PROVE  /\ Apart(f, A \cup {x}) = Apart(f, A) + From(f, A, f[x])
             /\ From(f, A, f[x]) \in Int /\ From(f, A, f[x]) >= 0
             /\ From(f, A, f[x]) = 0 => \A t \in A : f[t] = f[x]
  <2>1. IsFiniteSet(A) /\ (\A t \in A \cup {x} : f[t] \in Int) /\ (\A t \in A : f[t] \in Int)
        /\ f[x] \in Int
    BY FS_Subset
  <2> QED
    BY <1>0, <2>1, ApartGrows, FromSign
<1>1. {} \in T
  <2> DEFINE sq == [t \in {} |-> f[t] * f[t]]
  <2>1. \A t \in {} : sq[t] \in Int /\ f[t] \in Int
    OBVIOUS
  <2> HIDE DEF sq
  <2>2. SumFunctionOnSet(sq, {}) = 0 /\ SumFunctionOnSet(f, {}) = 0 /\ Cardinality({}) = 0
    BY <2>1, FS_EmptySet, SumBasics
  <2>3. Apart(f, {}) = 0
    BY <2>2 DEF Apart, Squared, sq
  <2> QED
    BY <2>3
<1>2. ASSUME NEW A \in SUBSET S, NEW x \in S, A \in T, x \notin A PROVE A \cup {x} \in T
  BY <1>0, <1>2
<1>3. SUBSET S \subseteq T
  <2> HIDE DEF T
  <2> QED
    BY <1>1, <1>2, FiniteInductive
<1>4. ASSUME Apart(f, S) = 0, NEW t \in S, NEW u \in S PROVE f[t] = f[u]
  <2> DEFINE A == S \ {u}
  <2>1. A \in SUBSET S /\ u \notin A /\ A \cup {u} = S
    OBVIOUS
  <2>2. A \in T
    BY <1>3, <2>1
  <2> HIDE DEF A
  <2>3. Apart(f, A) \in Int /\ Apart(f, A) >= 0
    BY <2>2
  <2>4. /\ Apart(f, S) = Apart(f, A) + From(f, A, f[u])
        /\ From(f, A, f[u]) \in Int /\ From(f, A, f[u]) >= 0
        /\ From(f, A, f[u]) = 0 => \A k \in A : f[k] = f[u]
    BY <1>0, <2>1
  <2>5. \A k \in A : f[k] = f[u]
    BY <1>4, <2>3, <2>4
  <2> QED
    BY <2>5 DEF A
<1> QED
  BY <1>3, <1>4
---------------------------------------------------------------------------
(* The verdict.                                                              *)
Observed(g) == IsFiniteSet(DOMAIN g) /\ \A t \in DOMAIN g : g[t] \in Int

(* The two sides of the separation, with the groups exchanged.              *)
LEMMA SeparatedIntegers ==
    ASSUME NEW e \in Int, NEW f \in Int, NEW m \in Int, NEW n \in Int, NEW v \in Int, NEW w \in Int
    PROVE  LET r == (e - f) * (e - f) * (m - 1) * (n - 1) - 4 * (v + w)
               s == (f - e) * (f - e) * (n - 1) * (m - 1) - 4 * (w + v)
           IN r = s /\ 64 * v * w = 64 * w * v
OBVIOUS

(* The spread of a group, and when there is none.                           *)
LEMMA SpreadIs ==
    ASSUME NEW g, Observed(g), NEW others \in Nat
    PROVE  LET c == Apart(g, DOMAIN g)
               n == Size(g)
           IN /\ Spread(g, others) = c * n * others * others * (others - 1)
              /\ c \in Int /\ c >= 0 /\ n \in Nat /\ SumFunction(g) \in Int
              /\ Spread(g, others) \in Int
              /\ c = 0 => \A t, u \in DOMAIN g : g[t] = g[u]
<1> DEFINE c == Apart(g, DOMAIN g)
           n == Size(g)
<1>1. c \in Int /\ c >= 0 /\ (c = 0 => \A t, u \in DOMAIN g : g[t] = g[u])
  BY ApartSign DEF Observed
<1>2. n \in Nat
  BY FS_CardinalityType DEF Observed, Size
<1>3. SumFunction(g) \in Int
  BY SumBasics DEF Observed, SumFunction
<1>4. Spread(g, others) = c * n * others * others * (others - 1)
  BY DEF Spread, Apart, Squares, Squared, Size, SumFunction
<1> HIDE DEF c, n
<1>5. c * n * others * others * (others - 1) \in Int
  BY <1>1, <1>2
<1> QED
  BY <1>1, <1>2, <1>3, <1>4, <1>5 DEF c, n

(* Whether two groups are separated does not depend on their order.         *)
LEMMA SeparatedEither ==
    ASSUME NEW g, NEW h, Observed(g), Observed(h)
    PROVE  Separated(g, h) <=> Separated(h, g)
<1> DEFINE m == Size(g)
           n == Size(h)
           e == SumFunction(g) * n
           f == SumFunction(h) * m
           v == Spread(g, n)
           w == Spread(h, m)
           r == (e - f) * (e - f) * (m - 1) * (n - 1) - 4 * (v + w)
           s == (f - e) * (f - e) * (n - 1) * (m - 1) - 4 * (w + v)
<1>1. m \in Nat /\ n \in Nat
  BY FS_CardinalityType DEF Observed, Size
<1>2. v \in Int /\ w \in Int /\ SumFunction(g) \in Int /\ SumFunction(h) \in Int
  BY <1>1, SpreadIs
<1>3. e \in Int /\ f \in Int
  BY <1>1, <1>2
<1>4. /\ Separated(g, h) <=> r >= 0 /\ r * r >= 64 * v * w
      /\ Separated(h, g) <=> s >= 0 /\ s * s >= 64 * w * v
  BY DEF Separated
<1>5. r = s /\ 64 * v * w = 64 * w * v
  <2> HIDE DEF m, n, e, f, v, w
  <2> QED
    BY <1>1, <1>2, <1>3, SeparatedIntegers
<1> HIDE DEF r, s, v, w
<1> QED
  BY <1>4, <1>5

(* Groups of the same mean are only far enough apart when all in them is    *)
(* the same.                                                                 *)
LEMMA ProductPositive ==
    ASSUME NEW c \in Int, c >= 0, NEW m \in Int, m >= 2, NEW n \in Int, n >= 2
    PROVE  LET x == c * m * n * n * (n - 1)
           IN x \in Int /\ x >= 0 /\ (x = 0 => c = 0)
<1> DEFINE k == m * n * n * (n - 1)
<1>1. m * n \in Int /\ m * n >= 1
  OBVIOUS
<1>2. (m * n) * n \in Int /\ (m * n) * n >= 1
  <2> DEFINE y == m * n
  <2>1. y \in Int /\ y >= 1
    BY <1>1
  <2> HIDE DEF y
  <2>2. y * n \in Int /\ y * n >= 1
    BY <2>1
  <2> QED
    BY <2>2 DEF y
<1>3. k \in Int /\ k >= 1
  <2> DEFINE y == m * n * n
  <2>1. y \in Int /\ y >= 1
    BY <1>2
  <2> HIDE DEF y
  <2>2. y * (n - 1) \in Int /\ y * (n - 1) >= 1
    BY <2>1
  <2> QED
    BY <2>2 DEF y
<1>4. c * m * n * n * (n - 1) = c * k
  OBVIOUS
<1> HIDE DEF k
<1>5. c * k \in Int /\ c * k >= 0 /\ (c * k = 0 => c = 0)
  BY <1>3
<1> QED
  BY <1>4, <1>5

(* Separated groups with the same mean have no spread.                      *)
LEMMA SameMean ==
    ASSUME NEW g, NEW h, Observed(g), Observed(h), Size(g) >= 2, Size(h) >= 2,
           Separated(g, h), SumFunction(g) * Size(h) = SumFunction(h) * Size(g)
    PROVE  /\ \A t, u \in DOMAIN g : g[t] = g[u]
           /\ \A t, u \in DOMAIN h : h[t] = h[u]
<1> DEFINE m == Size(g)
           n == Size(h)
           c == Apart(g, DOMAIN g)
           d == Apart(h, DOMAIN h)
           v == Spread(g, n)
           w == Spread(h, m)
           e == SumFunction(g) * n
           f == SumFunction(h) * m
           r == (e - f) * (e - f) * (m - 1) * (n - 1) - 4 * (v + w)
<1>1. m \in Nat /\ n \in Nat
  BY FS_CardinalityType DEF Observed, Size
<1>2. /\ v = c * m * n * n * (n - 1) /\ w = d * n * m * m * (m - 1)
      /\ c \in Int /\ c >= 0 /\ d \in Int /\ d >= 0
      /\ c = 0 => \A t, u \in DOMAIN g : g[t] = g[u]
      /\ d = 0 => \A t, u \in DOMAIN h : h[t] = h[u]
      /\ SumFunction(g) \in Int /\ SumFunction(h) \in Int
  BY <1>1, SpreadIs
<1>3. m >= 2 /\ n >= 2 /\ e = f /\ e \in Int
  BY <1>1, <1>2
<1>4. r >= 0
  BY DEF Separated
<1> HIDE DEF m, n, c, d, v, w, e, f
<1>5. v \in Int /\ v >= 0 /\ (v = 0 => c = 0) /\ w \in Int /\ w >= 0 /\ (w = 0 => d = 0)
  BY <1>1, <1>2, <1>3, ProductPositive
<1>6. (e - f) * (e - f) * (m - 1) * (n - 1) = 0
  <2>1. e - f = 0
    BY <1>3
  <2>2. (e - f) * (e - f) = 0
    BY <2>1
  <2>3. (e - f) * (e - f) * (m - 1) = 0
    BY <1>1, <2>2
  <2> QED
    BY <1>1, <2>3
<1>7. v = 0 /\ w = 0
  BY <1>4, <1>5, <1>6
<1> QED
  BY <1>2, <1>5, <1>7

(* A group of one value: its sum and its ninetieth percentile.               *)
LEMMA Constant ==
    ASSUME NEW g, Observed(g), Size(g) >= 2, NEW x \in Int, \A t \in DOMAIN g : g[t] = x
    PROVE  SumFunction(g) = Size(g) * x /\ NinetiethPercentile(g) = x
<1> DEFINE D == DOMAIN g
           m == Size(g)
<1>1. IsFiniteSet(D) /\ m \in Nat /\ m = Cardinality(D)
  BY FS_CardinalityType DEF Observed, Size
<1>2. SumFunction(g) = m * x
  <2> DEFINE T == {A \in SUBSET D : SumFunctionOnSet(g, A) = Cardinality(A) * x}
  <2>1. {} \in T
    <3>1. SumFunctionOnSet(g, {}) = 0 /\ Cardinality({}) = 0
      BY FS_EmptySet, SumBasics
    <3> QED
      BY <3>1
  <2>2. ASSUME NEW A \in SUBSET D, NEW t \in D, A \in T, t \notin A PROVE A \cup {t} \in T
    <3>1. IsFiniteSet(A) /\ g[t] = x /\ g[t] \in Int /\ \A u \in A : g[u] \in Int
      BY <1>1, FS_Subset
    <3>2. SumFunctionOnSet(g, A \cup {t}) = x + SumFunctionOnSet(g, A)
      BY <2>2, <3>1, SumAdd
    <3>3. Cardinality(A \cup {t}) = Cardinality(A) + 1 /\ Cardinality(A) \in Nat
      BY <2>2, <3>1, FS_AddElement, FS_CardinalityType
    <3>4. SumFunctionOnSet(g, A) = Cardinality(A) * x
      BY <2>2
    <3>5. (Cardinality(A) + 1) * x = x + Cardinality(A) * x
      BY <3>3
    <3> QED
      BY <3>2, <3>3, <3>4, <3>5
  <2>3. SUBSET D \subseteq T
    <3> HIDE DEF T, D
    <3> QED
      BY <1>1, <2>1, <2>2, FiniteInductive
  <2> QED
    BY <1>1, <2>3 DEF SumFunction
<1>3. PICK t \in D : TRUE
  BY <1>1, FS_EmptySet
<1>4. Range(g) = {x}
  BY <1>3 DEF Range
<1> DEFINE rank == 1 + (9 * (m - 1) + 5) \div 10
           V == {v \in Range(g) : Cardinality({u \in D : g[u] <= v}) >= rank}
<1>5. rank <= m
  <2> HIDE DEF m
  <2> QED
    BY <1>1
<1>6. {u \in D : g[u] <= x} = D
  OBVIOUS
<1>7. V = {x}
  <2>1. Cardinality({u \in D : g[u] <= x}) >= rank
    BY <1>1, <1>5, <1>6
  <2> QED
    BY <1>4, <2>1
<1>8. NinetiethPercentile(g) = Min(V)
  BY DEF NinetiethPercentile
<1> HIDE DEF V
<1>9. Min({x}) = x
  BY DEF Min
<1> QED
  BY <1>2, <1>7, <1>8, <1>9

(* The percentile of the application's group does not depend on the order   *)
(* of the groups, whether the means differ or not.                          *)
LEMMA ApplicationEither ==
    ASSUME NEW g, NEW h, Observed(g), Observed(h), Size(g) >= 2, Size(h) >= 2, Separated(g, h)
    PROVE  NinetiethPercentile(Application(g, h)) = NinetiethPercentile(Application(h, g))
<1> DEFINE e == SumFunction(g) * Size(h)
           f == SumFunction(h) * Size(g)
<1>1. Size(g) \in Nat /\ Size(h) \in Nat /\ SumFunction(g) \in Int /\ SumFunction(h) \in Int
  BY SumBasics, FS_CardinalityType DEF Observed, Size, SumFunction
<1>2. e \in Int /\ f \in Int
  BY <1>1
<1>3. CASE e < f
  BY <1>2, <1>3 DEF Application
<1>4. CASE f < e
  BY <1>2, <1>4 DEF Application
<1>5. CASE e = f
  <2>1. /\ \A t, u \in DOMAIN g : g[t] = g[u]
        /\ \A t, u \in DOMAIN h : h[t] = h[u]
    BY <1>5, SameMean
  <2>2. DOMAIN g # {} /\ DOMAIN h # {}
    BY <1>1, FS_EmptySet DEF Size
  <2>3. PICK t \in DOMAIN g, u \in DOMAIN h : TRUE
    BY <2>2
  <2> DEFINE x == g[t]
             y == h[u]
  <2>4. x \in Int /\ y \in Int /\ (\A k \in DOMAIN g : g[k] = x) /\ (\A k \in DOMAIN h : h[k] = y)
    BY <2>1 DEF Observed
  <2> HIDE DEF x, y
  <2>5. /\ SumFunction(g) = Size(g) * x /\ NinetiethPercentile(g) = x
        /\ SumFunction(h) = Size(h) * y /\ NinetiethPercentile(h) = y
    BY <2>4, Constant
  <2>6. x = y
    <3> DEFINE m == Size(g)
               n == Size(h)
    <3>1. m \in Nat /\ n \in Nat /\ m >= 2 /\ n >= 2 /\ (m * x) * n = (n * y) * m
      BY <1>1, <1>5, <2>5
    <3> HIDE DEF m, n
    <3>2. (m * n) * (x - y) = 0
      BY <2>4, <3>1
    <3>3. m * n \in Int /\ m * n # 0
      BY <3>1
    <3> DEFINE k == m * n
    <3>4. k \in Int /\ k # 0 /\ k * (x - y) = 0
      BY <3>2, <3>3
    <3> HIDE DEF k
    <3> QED
      BY <2>4, <3>4
  <2> QED
    BY <2>5, <2>6 DEF Application
<1> QED
  BY <1>2, <1>3, <1>4, <1>5

(* The assessment of a labelling and of the other one.                       *)
LEMMA VerdictEither ==
    ASSUME NEW values \in Seq(Int), NEW path \in [1..Len(values) -> States], values # <<>>
    PROVE  assess_cpu(values, path) = assess_cpu(values, Other(path))
<1> DEFINE n == Len(values)
           g == Group(values, path, 0)
           h == Group(values, path, 1)
<1>1. n \in Nat /\ n # 0 /\ DOMAIN values = 1..n /\ \A t \in 1..n : values[t] \in Int
  BY EmptySeq, LenProperties, ElementOfSeq
<1>2. DOMAIN path = 1..n /\ \A t \in 1..n : path[t] = 0 \/ path[t] = 1
  BY DEF States
<1>3. DOMAIN Other(path) = 1..n /\ \A t \in 1..n : Other(path)[t] = 1 - path[t]
  BY <1>2 DEF Other
<1>4. path # NoModel /\ Other(path) # NoModel
  <2>1. DOMAIN NoModel = {} /\ 1 \in 1..n
    BY <1>1, EmptySeq, LenProperties DEF NoModel
  <2> QED
    BY <1>2, <1>3, <2>1
<1>5. Group(values, Other(path), 0) = h /\ Group(values, Other(path), 1) = g
  <2>1. {t \in DOMAIN values : Other(path)[t] = 0} = {t \in DOMAIN values : path[t] = 1}
    BY <1>1, <1>2, <1>3
  <2>2. {t \in DOMAIN values : Other(path)[t] = 1} = {t \in DOMAIN values : path[t] = 0}
    BY <1>1, <1>2, <1>3
  <2> QED
    BY <2>1, <2>2 DEF Group
<1>6. Observed(g) /\ Observed(h)
  <2>1. IsFiniteSet(1..n)
    BY <1>1, FS_Interval
  <2>2. DOMAIN g \subseteq 1..n /\ DOMAIN h \subseteq 1..n
    BY <1>1 DEF Group
  <2>3. (\A t \in DOMAIN g : g[t] \in Int) /\ (\A t \in DOMAIN h : h[t] \in Int)
    BY <1>1 DEF Group
  <2> HIDE DEF g, h
  <2> QED
    BY <2>1, <2>2, <2>3, FS_Subset DEF Observed
<1>7. /\ assess_cpu(values, path)
           = IF n < 4 THEN "data"
             ELSE IF Size(g) <= 1 \/ Size(h) <= 1 THEN Performance(NinetiethPercentile(values) < 9)
             ELSE IF ~Separated(g, h) THEN Performance(NinetiethPercentile(values) < 9)
             ELSE Performance(NinetiethPercentile(Application(g, h)) < 9)
      /\ assess_cpu(values, Other(path))
           = IF n < 4 THEN "data"
             ELSE IF Size(h) <= 1 \/ Size(g) <= 1 THEN Performance(NinetiethPercentile(values) < 9)
             ELSE IF ~Separated(h, g) THEN Performance(NinetiethPercentile(values) < 9)
             ELSE Performance(NinetiethPercentile(Application(h, g)) < 9)
  BY <1>4, <1>5 DEF assess_cpu
<1>8. Size(g) \in Nat /\ Size(h) \in Nat
  BY <1>6, FS_CardinalityType DEF Observed, Size
<1> HIDE DEF g, h
<1>9. Separated(g, h) <=> Separated(h, g)
  BY <1>6, SeparatedEither
<1>10. ~(Size(g) <= 1 \/ Size(h) <= 1) /\ Separated(g, h)
         => NinetiethPercentile(Application(g, h)) = NinetiethPercentile(Application(h, g))
  BY <1>6, <1>8, ApplicationEither
<1> QED
  BY <1>7, <1>9, <1>10

(* With the states renumbered, a labelling has the score that the other one *)
(* had.                                                                      *)
LEMMA ScoreEither ==
    ASSUME NEW hmm, Fits(hmm), NEW q \in [1..Len(hmm.emission) -> States]
    PROVE  LET m == Renumbered(hmm)
           IN /\ Fits(m) /\ Len(m.emission) = Len(hmm.emission)
              /\ Score(m, q) = Score(hmm, Other(q))
<1> DEFINE n == Len(hmm.emission)
           m == Renumbered(hmm)
           Exchanged(scores) == [s \in States |-> scores[1 - s]]
<1>1. n \in Nat /\ n # 0 /\ DOMAIN hmm.emission = 1..n /\ 1 \in 1..n
  BY EmptySeq, LenProperties DEF Fits
<1>2. \A s \in States : 1 - s \in States
  BY DEF States
<1>3. \A f \in Scores : /\ Exchanged(f) \in Scores
                        /\ \A s \in States : Exchanged(f)[s] = f[1 - s]
  BY <1>2 DEF Scores
<1>4. /\ m.initial = Exchanged(hmm.initial)
      /\ m.transition = [s \in States |-> Exchanged(hmm.transition[1 - s])]
      /\ m.emission = [t \in 1..n |-> Exchanged(hmm.emission[t])]
  BY <1>1 DEF Renumbered
<1> HIDE DEF m
<1>5. (\A t \in 1..n : hmm.emission[t] \in Scores) /\ hmm.initial \in Scores
      /\ (\A s \in States : hmm.transition[s] \in Scores)
  BY <1>1, ElementOfSeq DEF Fits
<1>6. m.initial \in Scores /\ \A s \in States : m.initial[s] = hmm.initial[1 - s]
  BY <1>3, <1>4, <1>5
<1>7. /\ m.transition \in [States -> Scores]
      /\ \A s, u \in States : m.transition[s][u] = hmm.transition[1 - s][1 - u]
  <2> HIDE DEF Exchanged
  <2>1. \A s \in States : /\ m.transition[s] = Exchanged(hmm.transition[1 - s])
                          /\ hmm.transition[1 - s] \in Scores
    BY <1>2, <1>4, <1>5
  <2> QED
    BY <1>3, <1>4, <2>1
<1>8. /\ m.emission \in Seq(Scores) /\ Len(m.emission) = n
      /\ \A t \in 1..n, s \in States : m.emission[t][s] = hmm.emission[t][1 - s]
  <2> HIDE DEF Exchanged
  <2>1. \A t \in 1..n : Exchanged(hmm.emission[t]) \in Scores
    BY <1>3, <1>5
  <2>2. m.emission \in [1..n -> Scores]
    BY <1>4, <2>1
  <2>3. m.emission \in Seq(Scores) /\ Len(m.emission) = n
    BY <1>1, <2>2
  <2> QED
    BY <1>3, <1>4, <1>5, <2>3
<1>9. Fits(m)
  <2>1. m.emission # <<>>
    BY <1>1, <1>8, EmptySeq
  <2> QED
    BY <1>6, <1>7, <1>8, <2>1 DEF Fits
<1> DEFINE r == Other(q)
<1>10. /\ DOMAIN q = 1..n /\ DOMAIN r = 1..n
       /\ \A t \in 1..n : q[t] \in States /\ r[t] = 1 - q[t]
  BY DEF Other
<1> HIDE DEF r
<1> DEFINE Step(h, path, t) ==
              h.emission[t][path[t]]
              + IF t = 1 THEN 0 ELSE h.transition[path[t - 1]][path[t]]
<1>11. ASSUME NEW t \in 1..n PROVE Step(m, q, t) = Step(hmm, r, t)
  <2>1. t # 1 => t - 1 \in 1..n
    BY <1>1
  <2>2. m.emission[t][q[t]] = hmm.emission[t][r[t]]
    BY <1>8, <1>10
  <2>3. t # 1 => m.transition[q[t - 1]][q[t]] = hmm.transition[r[t - 1]][r[t]]
    BY <1>7, <1>10, <2>1
  <2> QED
    BY <2>2, <2>3
<1>12. [t \in 1..n |-> Step(m, q, t)] = [t \in 1..n |-> Step(hmm, r, t)]
  BY <1>11
<1>13. m.initial[q[1]] = hmm.initial[r[1]]
  BY <1>1, <1>6, <1>10
<1>14. /\ Score(m, q) = m.initial[q[1]] + SumFunction([t \in 1..n |-> Step(m, q, t)])
       /\ Score(hmm, r) = hmm.initial[r[1]] + SumFunction([t \in 1..n |-> Step(hmm, r, t)])
  BY <1>10 DEF Score
<1>15. Score(m, q) = Score(hmm, r)
  <2> HIDE DEF Step
  <2> QED
    BY <1>12, <1>13, <1>14
<1> QED
  BY <1>8, <1>9, <1>15 DEF m, r

(* Exchanging the states' names twice changes nothing.                       *)
LEMMA RenumberedTwice ==
    ASSUME NEW D, NEW q \in [D -> States]
    PROVE  Other(q) \in [D -> States] /\ Other(Other(q)) = q
<1> DEFINE r == Other(q)
           back == Other(r)
<1>1. r \in [D -> States] /\ \A t \in D : r[t] = 1 - q[t] /\ q[t] \in {0, 1}
  BY DEF Other, States
<1> HIDE DEF r
<1>2. back \in [D -> States] /\ \A t \in D : back[t] = 1 - r[t]
  BY <1>1 DEF Other, States
<1> HIDE DEF back
<1>3. \A t \in D : back[t] = q[t]
  BY <1>1, <1>2
<1>4. back = q
  BY <1>2, <1>3, SameFunction
<1> QED
  BY <1>1, <1>4 DEF back, r

(* The labelling is a most probable one, and so is, with the states' names  *)
(* exchanged back, that of the renumbered model: it gives the same verdict. *)
LEMMA AssessmentKept ==
    ASSUME NEW in, Assessment(in)
    PROVE  AssessmentHolds(in.values, in.hmm)
<1> DEFINE hmm == in.hmm
           path == viterbi(hmm)
           n == Len(in.values)
           All == [1..n -> States]
           m == Renumbered(hmm)
           other == viterbi(m)
<1>1. /\ in.values \in Seq(Int) /\ in.values # <<>> /\ Len(hmm.emission) = n
      /\ hmm.emission \in Seq(Scores) /\ hmm.initial \in Scores
      /\ hmm.transition \in [States -> Scores]
  BY DEF Assessment, Scores
<1>2. Fits(hmm)
  <2>1. n # 0
    BY <1>1, EmptySeq, LenProperties
  <2>2. hmm.emission # <<>>
    BY <1>1, <2>1, EmptySeq
  <2> QED
    BY <1>1, <2>2 DEF Fits
<1>3. \E q \in All : TRUE
  <2>1. [t \in 1..n |-> 0] \in All
    BY DEF States
  <2> QED
    BY <2>1
<1> HIDE DEF hmm, n, path, m, other
<1>4. path \in All /\ \A q \in All : Score(hmm, q) <= Score(hmm, path)
  BY <1>1, <1>2, <1>3, ViterbiBest DEF path
<1>5. /\ Fits(m) /\ Len(m.emission) = n
      /\ \A q \in All : Score(m, q) = Score(hmm, Other(q))
  BY <1>1, <1>2, <1>3, ScoreEither DEF m
<1>6. other \in All /\ \A q \in All : Score(m, q) <= Score(m, other)
  BY <1>3, <1>5, ViterbiBest DEF other
<1>7. \A q \in All : Other(q) \in All /\ Other(Other(q)) = q
  BY RenumberedTwice
<1> DEFINE back == Other(other)
<1>8. back \in All /\ \A r \in All : Score(hmm, r) <= Score(hmm, back)
  <2>1. \A r \in All : Score(m, Other(r)) = Score(hmm, r)
    BY <1>5, <1>7
  <2>2. Score(m, other) = Score(hmm, back)
    BY <1>5, <1>6
  <2> QED
    BY <1>6, <1>7, <2>1, <2>2
<1>9. assess_cpu(in.values, other) = assess_cpu(in.values, back)
  BY <1>1, <1>6, VerdictEither DEF n
<1>10. [DOMAIN path -> States] = All
  BY <1>4
<1> HIDE DEF back, All
<1>11. path \in Best(hmm, All) /\ back \in Best(hmm, All)
  BY <1>4, <1>8 DEF Best
<1>12. AssessmentHolds(in.values, hmm)
  BY <1>9, <1>10, <1>11 DEF AssessmentHolds, path, other, m
<1> QED
  BY <1>12 DEF hmm
---------------------------------------------------------------------------
(* Budgets.                                                                  *)

(* A percentage is exceeded, by the quotient the code computes, by what is  *)
(* larger of a positive baseline and by what is smaller of a negative one.  *)
LEMMA PercentIsRegression ==
    ASSUME NEW x \in Int, NEW y \in Int, NEW limit \in Nat
    PROVE  LET d == [baseline |-> x, candidate |-> y]
           IN /\ x > 0 => (PercentExceeds(d, limit) <=> y * 100 > x * (100 + limit))
              /\ x < 0 => (PercentExceeds(d, limit) <=> y * 100 < x * (100 + limit))
<1> DEFINE p == limit * x
           d == [baseline |-> x, candidate |-> y]
<1>1. p \in Int /\ x * (100 + limit) = x * 100 + p
  OBVIOUS
<1>2. (y - x) * 100 = y * 100 - x * 100
  OBVIOUS
<1>3. PercentExceeds(d, limit)
        <=> IF x > 0 THEN (y - x) * 100 > p ELSE (y - x) * 100 < p
  BY DEF PercentExceeds
<1> HIDE DEF p
<1>4. x > 0 => (PercentExceeds(d, limit) <=> y * 100 > x * (100 + limit))
  BY <1>1, <1>2, <1>3
<1>5. x < 0 => (PercentExceeds(d, limit) <=> y * 100 < x * (100 + limit))
  BY <1>1, <1>2, <1>3
<1> QED
  BY <1>4, <1>5

(* compare gives a verdict only on two finished, complete, comparable runs, *)
(* and success exactly when they keep every budget.                         *)
LEMMA GateKept ==
    ASSUME NEW in, Comparison(in)
    PROVE  GateHolds(in.a, in.b, in.budgets)
<1> DEFINE a == in.a
           b == in.b
           budgets == in.budgets
<1>a. /\ a.metrics \in [DOMAIN a.metrics -> Int] /\ b.metrics \in [DOMAIN b.metrics -> Int]
      /\ \A name \in DOMAIN budgets :
            budgets[name].max \subseteq Int /\ budgets[name].regression \subseteq Int
  BY DEF Comparison
<1> HIDE DEF a, b, budgets
<1> DEFINE deltas == Deltas(a, b)
           code == ExitCode(a, b, budgets)
<1>1. /\ DOMAIN deltas = Available(a) \cap Available(b)
      /\ \A name \in DOMAIN deltas :
            deltas[name] = [baseline |-> a.metrics[name], candidate |-> b.metrics[name]]
  BY DEF Deltas
<1>2. \A name \in DOMAIN deltas : a.metrics[name] \in Int /\ b.metrics[name] \in Int
  <2>1. Available(a) \subseteq DOMAIN a.metrics /\ Available(b) \subseteq DOMAIN b.metrics
    BY DEF Available
  <2>2. /\ \A name \in DOMAIN a.metrics : a.metrics[name] \in Int
        /\ \A name \in DOMAIN b.metrics : b.metrics[name] \in Int
    BY <1>a
  <2> QED
    BY <1>1, <2>1, <2>2
<1>3. ASSUME code # 70
      PROVE  /\ Valid(budgets) /\ Comparable(a, b, budgets)
             /\ code = IF \E name \in DOMAIN budgets \cap DOMAIN deltas :
                              Violations(deltas[name], budgets[name]) # {} THEN 10 ELSE 0
  BY <1>3 DEF ExitCode
<1>4. ASSUME code # 70
      PROVE  /\ \A run \in {a, b} : /\ run.finished /\ ~run.partial
                                    /\ run.collectors \subseteq run.whole
                                    /\ run.env # Missing
             /\ a.mode = b.mode /\ a.collectors = b.collectors /\ a.env = b.env
  BY <1>3, <1>4 DEF Comparable, Alike, KeepsContract
<1>5. ASSUME code # 70
      PROVE  /\ DOMAIN budgets \subseteq DOMAIN deltas
             /\ \A name \in DOMAIN budgets :
                   /\ budgets[name].max \subseteq Int /\ budgets[name].regression \subseteq Nat
                   /\ a.metrics[name] \in Int /\ b.metrics[name] \in Int
  <2>1. DOMAIN budgets \subseteq DOMAIN deltas
    BY <1>3, <1>5 DEF Comparable
  <2>2. ASSUME NEW name \in DOMAIN budgets
        PROVE  budgets[name].max \subseteq Int /\ budgets[name].regression \subseteq Int
    BY <1>a
  <2>3. \A name \in DOMAIN budgets : \A limit \in budgets[name].regression : limit >= 0
    BY <1>3, <1>5 DEF Valid
  <2> QED
    BY <1>2, <2>1, <2>2, <2>3
<1>6. ASSUME code # 70, NEW name \in DOMAIN budgets
      PROVE  LET x == a.metrics[name]
                 y == b.metrics[name]
                 found == Violations(deltas[name], budgets[name])
             IN found = {} <=> Within(x, y, budgets[name])
  <2> DEFINE x == a.metrics[name]
             y == b.metrics[name]
             d == [baseline |-> x, candidate |-> y]
             limits == budgets[name]
  <2>1. /\ deltas[name] = d /\ x \in Int /\ y \in Int
        /\ limits.max \subseteq Int /\ limits.regression \subseteq Nat
    BY <1>1, <1>5, <1>6
  <2> HIDE DEF x, y, limits
  <2>2. \A limit \in limits.regression :
            /\ x > 0 => (PercentExceeds(d, limit) <=> y * 100 > x * (100 + limit))
            /\ x < 0 => (PercentExceeds(d, limit) <=> y * 100 < x * (100 + limit))
    BY <2>1, PercentIsRegression
  <2>3. /\ "absolute_max" \in Violations(d, limits) <=> \E limit \in limits.max : y > limit
        /\ "regression_percent" \in Violations(d, limits)
             <=> x # 0 /\ \E limit \in limits.regression : PercentExceeds(d, limit)
        /\ "regression_from_zero" \in Violations(d, limits)
             <=> x = 0 /\ limits.regression # {} /\ y > x
        /\ Violations(d, limits)
             \subseteq {"absolute_max", "regression_percent", "regression_from_zero"}
    BY DEF Violations
  <2>4. \A limit \in limits.regression : x = 0 => x * (100 + limit) = 0
    BY <2>1
  <2>5. Violations(d, limits) = {} => Within(x, y, limits)
    <3> SUFFICES ASSUME Violations(d, limits) = {} PROVE Within(x, y, limits)
      OBVIOUS
    <3>1. \A limit \in limits.max : y <= limit
      BY <2>1, <2>3
    <3>2. ASSUME NEW limit \in limits.regression
          PROVE  IF x >= 0 THEN y * 100 <= x * (100 + limit) ELSE y * 100 >= x * (100 + limit)
      <4> DEFINE z == x * (100 + limit)
      <4>1. limit \in Nat
        BY <2>1
      <4>2. z \in Int
        BY <2>1, <4>1
      <4>3. (x > 0 => ~(y * 100 > z)) /\ (x < 0 => ~(y * 100 < z))
        BY <2>1, <2>2, <2>3
      <4>4. x = 0 => z = 0 /\ y <= 0
        BY <2>1, <2>3, <2>4
      <4> HIDE DEF z
      <4>5. IF x >= 0 THEN y * 100 <= z ELSE y * 100 >= z
        BY <2>1, <4>2, <4>3, <4>4
      <4> QED
        BY <4>5 DEF z
    <3> QED
      BY <3>1, <3>2 DEF Within
  <2>6. Violations(d, limits) # {} => ~Within(x, y, limits)
    <3>1. CASE \E limit \in limits.max : y > limit
      BY <2>1, <3>1 DEF Within
    <3>2. CASE x # 0 /\ \E limit \in limits.regression : PercentExceeds(d, limit)
      <4>1. PICK limit \in limits.regression : PercentExceeds(d, limit)
        BY <3>2
      <4> DEFINE z == x * (100 + limit)
      <4>2. z \in Int
        BY <2>1, <4>1
      <4>3. (x > 0 => y * 100 > z) /\ (x < 0 => y * 100 < z)
        BY <2>2, <4>1
      <4>4. Within(x, y, limits) => IF x >= 0 THEN y * 100 <= z ELSE y * 100 >= z
        BY <4>1 DEF Within
      <4> HIDE DEF z
      <4> QED
        BY <2>1, <3>2, <4>2, <4>3, <4>4
    <3>3. CASE x = 0 /\ limits.regression # {} /\ y > x
      <4>1. PICK limit \in limits.regression : TRUE
        BY <3>3
      <4>2. Within(x, y, limits) => y * 100 <= x * (100 + limit)
        BY <2>1, <3>3 DEF Within
      <4> QED
        BY <2>1, <2>4, <3>3, <4>2
    <3> QED
      BY <2>3, <3>1, <3>2, <3>3
  <2> QED
    BY <2>1, <2>5, <2>6 DEF x, y, limits
<1> HIDE DEF deltas, code
<1>7. ASSUME code # 70 PROVE \A name \in DOMAIN budgets : name \in Available(a) \cap Available(b)
  BY <1>1, <1>5, <1>7
<1>8. ASSUME code # 70
      PROVE  (code = 0) <=> \A name \in DOMAIN budgets :
                               Within(a.metrics[name], b.metrics[name], budgets[name])
  <2>1. DOMAIN budgets \cap DOMAIN deltas = DOMAIN budgets
    BY <1>5, <1>8
  <2>2. (code = 0) <=> \A name \in DOMAIN budgets :
                           Violations(deltas[name], budgets[name]) = {}
    BY <1>3, <1>8, <2>1
  <2>3. \A name \in DOMAIN budgets : (Violations(deltas[name], budgets[name]) = {})
                    <=> Within(a.metrics[name], b.metrics[name], budgets[name])
    BY <1>6, <1>8
  <2> QED
    BY <2>2, <2>3
<1> QED
  <2>1. GateHolds(a, b, budgets)
    BY <1>4, <1>7, <1>8 DEF GateHolds, code
  <2> QED
    BY <2>1 DEF a, b, budgets
---------------------------------------------------------------------------
(* In every CPU profile, however many nodes it has and however deep they    *)
(* are: a frame's total counts each sample once, also where the frame calls *)
(* itself; the self times add up to the time of the samples whose node is   *)
(* known; and if every such sample took time, no self time is above the     *)
(* total, the flame graph shows no less of a frame than its total, and that *)
(* if no other frame has one of its labels, and a frame with self time is a *)
(* hotspot or was cut, whichever of equal frames are, for as many as the    *)
(* limit that were on the stack as long.  In every heap profile the self    *)
(* sizes add up to the profile's, a frame is cut only for as many as the    *)
(* limit that allocated no less, and a frame's total is what was allocated  *)
(* under it or, only where the frame is called below itself, more.          *)
THEOREM Profiles_Attributed ==
    ASSUME input \in Inputs
    PROVE  ProfilesAttributed
<1>1. CpuProfile(input) \/ HeapProfile(input) \/ Assessment(input) \/ Comparison(input)
  BY InputsAssumption
<1>2. input.kind = "cpu" => CpuProfile(input)
  BY <1>1 DEF HeapProfile, Assessment, Comparison
<1>3. input.kind = "heap" => HeapProfile(input)
  BY <1>1 DEF CpuProfile, Assessment, Comparison
<1>4. CpuProfile(input) => CpuAttributed(input)
  BY CpuHolds DEF CpuProfile
<1>5. HeapProfile(input) => HeapAttributed(input)
  BY HeapHolds DEF HeapProfile
<1> QED
  BY <1>2, <1>3, <1>4, <1>5 DEF ProfilesAttributed

(* For every sequence of observations and every fitted model, viterbi's     *)
(* labelling has a score that no labelling exceeds, and the verdict for the *)
(* model with its states renumbered is that of such a labelling, too: where *)
(* all most probable labellings agree the numbering does not matter.        *)
THEOREM Assessment_Sound ==
    ASSUME input \in Inputs
    PROVE  AssessmentSound
<1>1. CpuProfile(input) \/ HeapProfile(input) \/ Assessment(input) \/ Comparison(input)
  BY InputsAssumption
<1>2. input.kind = "doctor" => Assessment(input)
  BY <1>1 DEF CpuProfile, HeapProfile, Comparison
<1> QED
  BY <1>2, AssessmentKept DEF AssessmentSound

(* For every two runs, budgets and integer measurements, of either sign:    *)
(* compare exits with another code than 70 only for two finished, complete, *)
(* comparable runs that have what the budgets name, and then with 0 exactly *)
(* when every budget is kept, where one on the regression from a negative   *)
(* baseline is kept by what is not too small.                                *)
THEOREM Gate_Sound ==
    ASSUME input \in Inputs
    PROVE  GateSound
<1>1. CpuProfile(input) \/ HeapProfile(input) \/ Assessment(input) \/ Comparison(input)
  BY InputsAssumption
<1>2. input.kind = "compare" => Comparison(input)
  BY <1>1 DEF CpuProfile, HeapProfile, Assessment
<1> QED
  BY <1>2, GateKept DEF GateSound
=============================================================================

----------------------------- MODULE DataLemmas -----------------------------
(* Facts about the operators that the models of the analysis compute with:  *)
(* sums over finite sets, walks, greatest and least elements.  Induction is *)
(* over sets of numbers and of finite sets, from the well-founded orders of *)
(* the library: a property is the set of what has it.                       *)
EXTENDS Integers, FiniteSets, Sequences, FiniteSetsExt, Functions, Walks,
        FiniteSetTheorems, WellFoundedInduction, TLAPS

(* A set of natural numbers has a least one.                                 *)
LEMMA LeastNat ==
    ASSUME NEW T \in SUBSET Nat, T # {}
    PROVE  \E n \in T : \A m \in T : n <= m
<1>1. \E n \in T : \A m \in T : <<m, n>> \notin OpToRel(<, Nat)
  BY WFMin, NatLessThanWellFounded
<1>2. PICK n \in T : \A m \in T : <<m, n>> \notin OpToRel(<, Nat)
  BY <1>1
<1>3. \A m \in T : ~(m < n)
  BY <1>2 DEF OpToRel
<1> QED
  BY <1>3

(* Induction over the natural numbers.                                       *)
LEMMA NatInductive ==
    ASSUME NEW T, 0 \in T, \A n \in Nat : n \in T => n + 1 \in T
    PROVE  Nat \subseteq T
<1> SUFFICES ASSUME Nat \ T # {} PROVE FALSE
  OBVIOUS
<1>1. PICK n \in Nat \ T : \A m \in Nat \ T : n <= m
  BY LeastNat
<1> QED
  BY <1>1

(* Induction over the numbers up to n.                                       *)
LEMMA UpToInductive ==
    ASSUME NEW n \in Nat, NEW T, 0 \in T, \A k \in 0..n - 1 : k \in T => k + 1 \in T
    PROVE  0..n \subseteq T
<1> SUFFICES ASSUME (0..n) \ T # {} PROVE FALSE
  OBVIOUS
<1>1. (0..n) \ T \in SUBSET Nat
  OBVIOUS
<1>2. PICK m \in (0..n) \ T : \A k \in (0..n) \ T : m <= k
  BY <1>1, LeastNat
<1>3. m # 0 /\ m - 1 \in 0..n - 1 /\ m - 1 \in T
  BY <1>2
<1> QED
  BY <1>2, <1>3

(* Induction over the subsets of a finite set.                               *)
LEMMA FiniteInductive ==
    ASSUME NEW S, IsFiniteSet(S), NEW T, {} \in T,
           \A A \in SUBSET S, x \in S : A \in T /\ x \notin A => A \cup {x} \in T
    PROVE  SUBSET S \subseteq T
<1> DEFINE Good == {n \in Nat : \A A \in SUBSET S : Cardinality(A) = n => A \in T}
<1>1. 0 \in Good
  BY FS_Subset, FS_EmptySet
<1>2. ASSUME NEW n \in Nat, n \in Good PROVE n + 1 \in Good
  <2> SUFFICES ASSUME NEW A \in SUBSET S, Cardinality(A) = n + 1 PROVE A \in T
    OBVIOUS
  <2>1. IsFiniteSet(A)
    BY FS_Subset
  <2>2. PICK x \in A : TRUE
    BY <2>1, FS_EmptySet
  <2>3. Cardinality(A \ {x}) = n
    <3>1. Cardinality(A \ {x}) = Cardinality(A) - 1
      BY <2>1, <2>2, FS_RemoveElement
    <3> QED
      BY <3>1
  <2>4. A \ {x} \in T
    BY <1>2, <2>3
  <2>5. (A \ {x}) \cup {x} = A
    BY <2>2
  <2> QED
    BY <2>4, <2>5
<1>3. Nat \subseteq Good
  <2> HIDE DEF Good
  <2> QED
    BY <1>1, <1>2, NatInductive
<1>4. \A A \in SUBSET S : Cardinality(A) \in Nat
  BY FS_Subset, FS_CardinalityType
<1> QED
  BY <1>3, <1>4
---------------------------------------------------------------------------
(* The greatest and the least element of a finite set of numbers.           *)
LEMMA Greatest ==
    ASSUME NEW S \in SUBSET Int, IsFiniteSet(S), S # {}
    PROVE  Max(S) \in S /\ \A x \in S : x <= Max(S)
<1> DEFINE T == {A \in SUBSET S : A # {} => \E m \in A : \A x \in A : x <= m}
<1>1. {} \in T
  OBVIOUS
<1>2. ASSUME NEW A \in SUBSET S, NEW x \in S, A \in T, x \notin A PROVE A \cup {x} \in T
  <2>1. CASE A = {}
    BY <2>1
  <2>2. CASE A # {}
    <3>1. PICK m \in A : \A y \in A : y <= m
      BY <1>2, <2>2
    <3> QED
      BY <3>1
  <2> QED
    BY <2>1, <2>2
<1>3. SUBSET S \subseteq T
  <2> HIDE DEF T
  <2> QED
    BY <1>1, <1>2, FiniteInductive
<1>4. \E m \in S : \A x \in S : m >= x
  BY <1>3
<1> QED
  BY <1>4 DEF Max

(* Of a set of natural numbers, finite or not, the least.                   *)
LEMMA Least ==
    ASSUME NEW S \in SUBSET Nat, S # {}
    PROVE  Min(S) \in S /\ \A x \in S : Min(S) <= x
<1>1. \E m \in S : \A x \in S : m <= x
  BY LeastNat
<1> QED
  BY <1>1 DEF Min
---------------------------------------------------------------------------
(* A walk starts where it is told to and takes the steps it is told.        *)
Visits(step, x, n, line) ==
    /\ DOMAIN line = 1..n /\ line[1] = x
    /\ \A k \in 1..n : line[k] \in DOMAIN step
    /\ \A k \in 1..n : k # n => line[k + 1] = step[line[k]]

(* Walk, a recursive function, is such a walk.                              *)
LEMMA WalkSteps ==
    ASSUME NEW step, NEW x \in DOMAIN step, \A y \in DOMAIN step : step[y] \in DOMAIN step,
           NEW n \in Nat, n # 0
    PROVE  Visits(step, x, n, Walk(step, x, n))
<1> DEFINE S == DOMAIN step
           Is(f, m) == /\ f \in [1..m -> S]
                       /\ \A k \in 1..m : f[k] = IF k = 1 THEN x ELSE step[f[k - 1]]
           T == {m \in Nat : \E f \in [1..m -> S] : Is(f, m)}
<1>0. x \in S /\ \A y \in S : step[y] \in S
  OBVIOUS
<1> HIDE DEF S
<1>1. 0 \in T
  <2>1. Is([k \in 1..0 |-> x], 0)
    BY <1>0
  <2> QED
    BY <2>1
<1>2. ASSUME NEW m \in Nat, m \in T PROVE m + 1 \in T
  <2>1. PICK f : Is(f, m)
    BY <1>2
  <2> DEFINE g == [k \in 1..m + 1 |-> IF k <= m THEN f[k] ELSE IF m = 0 THEN x ELSE step[f[m]]]
  <2>2. g \in [1..m + 1 -> S]
    BY <1>0, <2>1
  <2>3. ASSUME NEW k \in 1..m + 1
        PROVE  g[k] = IF k = 1 THEN x ELSE step[g[k - 1]]
    <3>1. CASE k <= m
      <4>1. k \in 1..m /\ g[k] = f[k] /\ (k # 1 => k - 1 \in 1..m /\ g[k - 1] = f[k - 1])
        BY <3>1
      <4> QED
        BY <2>1, <4>1
    <3>2. CASE k = m + 1
      <4>1. g[k] = IF m = 0 THEN x ELSE step[f[m]]
        BY <3>2
      <4>2. k = 1 <=> m = 0
        BY <3>2
      <4>3. m # 0 => k - 1 = m /\ g[k - 1] = f[m]
        BY <3>2
      <4> QED
        BY <4>1, <4>2, <4>3
    <3> QED
      BY <3>1, <3>2
  <2>4. Is(g, m + 1)
    BY <2>2, <2>3
  <2> HIDE DEF Is, g
  <2> QED
    BY <2>4 DEF Is
<1>3. n \in T
  <2> HIDE DEF T
  <2> QED
    BY <1>1, <1>2, NatInductive
<1>4. PICK f : Is(f, n)
  BY <1>3
<1>5. f = [k \in 1..n |-> IF k = 1 THEN x ELSE step[f[k - 1]]]
  BY <1>4
<1> DEFINE w == Walk(step, x, n)
<1>6. w = [k \in 1..n |-> IF k = 1 THEN x ELSE step[w[k - 1]]]
  BY <1>5 DEF Walk
<1> HIDE DEF w
<1>7. \A k \in 1..n : w[k] = IF k = 1 THEN x ELSE step[w[k - 1]]
  BY <1>6
<1>8. \A k \in 1..n : w[k] = f[k]
  <2> DEFINE U == {k \in Nat : k \in 1..n => w[k] = f[k]}
  <2>1. 0 \in U
    OBVIOUS
  <2>2. ASSUME NEW k \in Nat, k \in U PROVE k + 1 \in U
    BY <2>2, <1>4, <1>7
  <2>3. Nat \subseteq U
    <3> HIDE DEF U
    <3> QED
      BY <2>1, <2>2, NatInductive
  <2> QED
    BY <2>3
<1>9. w \in [1..n -> S]
  BY <1>4, <1>6, <1>8
<1>10. w[1] = x /\ \A k \in 1..n : k # n => w[k + 1] = step[w[k]]
  <2>1. 1 \in 1..n
    OBVIOUS
  <2>2. ASSUME NEW k \in 1..n, k # n
        PROVE  w[k + 1] = step[w[k]]
    <3>1. k + 1 \in 1..n /\ k + 1 # 1 /\ (k + 1) - 1 = k
      BY <2>2
    <3> QED
      BY <1>7, <3>1
  <2> QED
    BY <1>7, <2>1, <2>2
<1> QED
  BY <1>9, <1>10 DEF w, S, Visits
---------------------------------------------------------------------------
(* How SumFunctionOnSet goes through a set.                                  *)
Picked(A) == CHOOSE x \in A : TRUE

Sums(f, S, g) ==
    /\ g \in [SUBSET S -> Int]
    /\ \A A \in SUBSET S :
          g[A] = IF A = {} THEN 0 ELSE f[Picked(A)] + g[A \ {Picked(A)}]

(* What a fold picks next is in the set it is picked from.                  *)
LEMMA PickedIn ==
    ASSUME NEW S, IsFiniteSet(S), NEW A \in SUBSET S, A # {}
    PROVE  /\ Picked(A) \in A /\ A \ {Picked(A)} \in SUBSET S
           /\ IsFiniteSet(A) /\ IsFiniteSet(A \ {Picked(A)})
           /\ Cardinality(A) \in Nat /\ Cardinality(A \ {Picked(A)}) = Cardinality(A) - 1
<1>1. Picked(A) \in A
  BY DEF Picked
<1>2. IsFiniteSet(A)
  BY FS_Subset
<1> QED
  BY <1>1, <1>2, FS_RemoveElement, FS_CardinalityType

(* There is such a function of the subsets,                                  *)
LEMMA SumsExist ==
    ASSUME NEW S, IsFiniteSet(S), NEW f, \A x \in S : f[x] \in Int
    PROVE  \E g : Sums(f, S, g)
<1> DEFINE UpTo(g, n) ==
             \A A \in SUBSET S : Cardinality(A) <= n =>
                 g[A] = IF A = {} THEN 0 ELSE f[Picked(A)] + g[A \ {Picked(A)}]
           T == {n \in Nat : \E g \in [SUBSET S -> Int] : UpTo(g, n)}
<1>1. 0 \in T
  <2> DEFINE g == [A \in SUBSET S |-> 0]
  <2>1. \A A \in SUBSET S : Cardinality(A) <= 0 => A = {}
    BY FS_Subset, FS_EmptySet, FS_CardinalityType
  <2>2. g \in [SUBSET S -> Int] /\ UpTo(g, 0)
    BY <2>1
  <2> HIDE DEF UpTo, g
  <2> QED
    BY <2>2
<1>2. ASSUME NEW n \in Nat, n \in T PROVE n + 1 \in T
  <2>1. PICK g \in [SUBSET S -> Int] : UpTo(g, n)
    BY <1>2
  <2> DEFINE h == [A \in SUBSET S |->
                      IF Cardinality(A) = n + 1 THEN f[Picked(A)] + g[A \ {Picked(A)}] ELSE g[A]]
  <2>2. ASSUME NEW A \in SUBSET S, Cardinality(A) = n + 1 PROVE A # {}
    <3>1. n + 1 # 0
      OBVIOUS
    <3> QED
      BY <2>2, <3>1, FS_EmptySet
  <2>3. h \in [SUBSET S -> Int]
    <3>1. ASSUME NEW A \in SUBSET S, Cardinality(A) = n + 1
          PROVE  f[Picked(A)] + g[A \ {Picked(A)}] \in Int
      <4>1. Picked(A) \in S /\ A \ {Picked(A)} \in SUBSET S
        BY <2>2, <3>1, PickedIn
      <4>2. g[A \ {Picked(A)}] \in Int
        BY <4>1
      <4> QED
        BY <4>1, <4>2
    <3>2. \A A \in SUBSET S : g[A] \in Int
      OBVIOUS
    <3> QED
      BY <3>1, <3>2
  <2>4. ASSUME NEW A \in SUBSET S, Cardinality(A) <= n + 1
        PROVE  h[A] = IF A = {} THEN 0 ELSE f[Picked(A)] + h[A \ {Picked(A)}]
    <3>1. CASE A = {}
      <4>1. Cardinality(A) = 0
        BY <3>1, FS_EmptySet
      <4>2. h[A] = g[A]
        BY <4>1
      <4>3. g[A] = 0
        BY <2>1, <3>1, <4>1
      <4> QED
        BY <3>1, <4>2, <4>3
    <3>2. CASE A # {}
      <4>1. /\ A \ {Picked(A)} \in SUBSET S
            /\ Cardinality(A) \in Nat /\ Cardinality(A \ {Picked(A)}) = Cardinality(A) - 1
        BY <3>2, PickedIn
      <4>2. Cardinality(A \ {Picked(A)}) # n + 1
        BY <2>4, <4>1
      <4>3. h[A \ {Picked(A)}] = g[A \ {Picked(A)}]
        BY <4>1, <4>2
      <4>4. CASE Cardinality(A) = n + 1
        <5>1. h[A] = f[Picked(A)] + g[A \ {Picked(A)}]
          BY <4>4
        <5> QED
          BY <3>2, <4>3, <5>1
      <4>5. CASE Cardinality(A) # n + 1
        <5>1. h[A] = g[A] /\ Cardinality(A) <= n
          BY <2>4, <4>1, <4>5
        <5>2. g[A] = f[Picked(A)] + g[A \ {Picked(A)}]
          BY <2>1, <3>2, <5>1
        <5> QED
          BY <3>2, <4>3, <5>1, <5>2
      <4> QED
        BY <4>4, <4>5
    <3> QED
      BY <3>1, <3>2
  <2>5. UpTo(h, n + 1)
    BY <2>4
  <2> HIDE DEF UpTo, h
  <2> QED
    BY <2>3, <2>5
<1>3. Cardinality(S) \in T
  <2> HIDE DEF T
  <2> QED
    BY <1>1, <1>2, NatInductive, FS_CardinalityType
<1>4. PICK g \in [SUBSET S -> Int] : UpTo(g, Cardinality(S))
  BY <1>3
<1>5. \A A \in SUBSET S : Cardinality(A) <= Cardinality(S)
  BY FS_Subset
<1>6. Sums(f, S, g)
  BY <1>4, <1>5 DEF Sums
<1> QED
  BY <1>6

(* it is the one that is computed,                                           *)
LEMMA SumIsSums ==
    ASSUME NEW S, IsFiniteSet(S), NEW f, \A x \in S : f[x] \in Int
    PROVE  \E g : Sums(f, S, g) /\ SumFunctionOnSet(f, S) = g[S]
<1> DEFINE body(g) == [A \in SUBSET S |->
                          IF A = {} THEN 0 ELSE f[Picked(A)] + g[A \ {Picked(A)}]]
           sum == CHOOSE g : g = body(g)
<1>1. SumFunctionOnSet(f, S) = sum[S]
  BY DEF SumFunctionOnSet, FoldFunctionOnSet, MapThenFoldSet, Picked
<1>2. PICK g : Sums(f, S, g)
  BY SumsExist
<1>3. g = body(g)
  BY <1>2 DEF Sums
<1>4. sum = body(sum)
  <2> HIDE DEF body
  <2> QED
    BY <1>3
<1> HIDE DEF sum
<1>5. \A A \in SUBSET S :
          sum[A] = IF A = {} THEN 0 ELSE f[Picked(A)] + sum[A \ {Picked(A)}]
  BY <1>4
<1> DEFINE T == {n \in Nat : \A A \in SUBSET S : Cardinality(A) = n => sum[A] = g[A]}
<1>6. 0 \in T
  <2>1. \A A \in SUBSET S : Cardinality(A) = 0 => A = {}
    BY FS_Subset, FS_EmptySet
  <2> QED
    BY <1>2, <1>5, <2>1 DEF Sums
<1>7. ASSUME NEW n \in Nat, n \in T PROVE n + 1 \in T
  <2> SUFFICES ASSUME NEW A \in SUBSET S, Cardinality(A) = n + 1 PROVE sum[A] = g[A]
    OBVIOUS
  <2>1. A # {}
    <3>1. n + 1 # 0
      OBVIOUS
    <3> QED
      BY <3>1, FS_EmptySet
  <2>2. A \ {Picked(A)} \in SUBSET S /\ Cardinality(A \ {Picked(A)}) = n
    <3>1. /\ A \ {Picked(A)} \in SUBSET S
          /\ Cardinality(A \ {Picked(A)}) = Cardinality(A) - 1
      BY <2>1, PickedIn
    <3> QED
      BY <3>1
  <2>3. sum[A \ {Picked(A)}] = g[A \ {Picked(A)}]
    BY <1>7, <2>2
  <2> QED
    BY <1>2, <1>5, <2>1, <2>3 DEF Sums
<1>8. Nat \subseteq T
  <2> HIDE DEF T
  <2> QED
    BY <1>6, <1>7, NatInductive
<1>9. \A A \in SUBSET S : Cardinality(A) \in Nat
  BY FS_Subset, FS_CardinalityType
<1>10. \A A \in SUBSET S : sum[A] = g[A]
  BY <1>8, <1>9
<1> QED
  BY <1>1, <1>2, <1>10

(* and it does not matter which element is taken first.                     *)
LEMMA SumsAnyOrder ==
    ASSUME NEW S, IsFiniteSet(S), NEW f, \A x \in S : f[x] \in Int, NEW g, Sums(f, S, g)
    PROVE  \A A \in SUBSET S, x \in S : x \in A => g[A] = f[x] + g[A \ {x}]
<1> DEFINE Any(A) == \A x \in A : g[A] = f[x] + g[A \ {x}]
           T == {n \in Nat : \A A \in SUBSET S : Cardinality(A) = n => Any(A)}
<1>1. 0 \in T
  <2>1. \A A \in SUBSET S : Cardinality(A) = 0 => A = {}
    BY FS_Subset, FS_EmptySet
  <2> QED
    BY <2>1
<1>2. ASSUME NEW n \in Nat, n \in T PROVE n + 1 \in T
  <2> SUFFICES ASSUME NEW A \in SUBSET S, Cardinality(A) = n + 1, NEW x \in A
               PROVE  g[A] = f[x] + g[A \ {x}]
    OBVIOUS
  <2> DEFINE c == Picked(A)
  <2>1. /\ c \in A /\ A \ {c} \in SUBSET S /\ Cardinality(A \ {c}) = n
        /\ g[A] = f[c] + g[A \ {c}]
    <3>1. /\ c \in A /\ A \ {c} \in SUBSET S
          /\ Cardinality(A \ {c}) = Cardinality(A) - 1
      BY PickedIn
    <3>2. Cardinality(A \ {c}) = n
      BY <3>1
    <3> QED
      BY <3>1, <3>2 DEF Sums
  <2> HIDE DEF c
  <2>2. CASE x = c
    BY <2>1, <2>2
  <2>3. CASE x # c
    <3>1. A \ {x} \in SUBSET S /\ Cardinality(A \ {x}) = n
      <4>1. IsFiniteSet(A)
        BY FS_Subset
      <4>2. Cardinality(A \ {x}) = Cardinality(A) - 1
        BY <4>1, FS_RemoveElement
      <4> QED
        BY <4>2
    <3>2. x \in A \ {c} /\ c \in A \ {x}
      BY <2>1, <2>3
    <3>3. Any(A \ {c}) /\ Any(A \ {x})
      BY <1>2, <2>1, <3>1
    <3>4. /\ g[A \ {c}] = f[x] + g[(A \ {c}) \ {x}]
          /\ g[A \ {x}] = f[c] + g[(A \ {x}) \ {c}]
      BY <3>2, <3>3
    <3>5. (A \ {c}) \ {x} = (A \ {x}) \ {c}
      OBVIOUS
    <3> DEFINE rest == (A \ {x}) \ {c}
    <3>6. f[x] \in Int /\ f[c] \in Int /\ g[rest] \in Int
      BY <2>1 DEF Sums
    <3> HIDE DEF rest
    <3>7. g[A \ {c}] = f[x] + g[rest] /\ g[A \ {x}] = f[c] + g[rest]
      BY <3>4, <3>5 DEF rest
    <3> QED
      BY <2>1, <3>6, <3>7
  <2> QED
    BY <2>2, <2>3
<1>3. Nat \subseteq T
  <2> HIDE DEF T
  <2> QED
    BY <1>1, <1>2, NatInductive
<1>4. \A A \in SUBSET S : Cardinality(A) \in Nat
  BY FS_Subset, FS_CardinalityType
<1> QED
  BY <1>3, <1>4

(* The sums over all subsets agree with the sum over each.                   *)
LEMMA SumOfSubset ==
    ASSUME NEW S, IsFiniteSet(S), NEW f, \A x \in S : f[x] \in Int, NEW g, Sums(f, S, g),
           NEW A \in SUBSET S
    PROVE  SumFunctionOnSet(f, A) = g[A]
<1>1. IsFiniteSet(A) /\ \A x \in A : f[x] \in Int
  BY FS_Subset
<1>2. PICK h : Sums(f, A, h) /\ SumFunctionOnSet(f, A) = h[A]
  BY <1>1, SumIsSums
<1>a. \A B \in SUBSET A, x \in A : x \in B => h[B] = f[x] + h[B \ {x}]
  BY <1>1, <1>2, SumsAnyOrder
<1>b. \A B \in SUBSET S, x \in S : x \in B => g[B] = f[x] + g[B \ {x}]
  BY SumsAnyOrder
<1> DEFINE T == {B \in SUBSET A : h[B] = g[B]}
<1>3. {} \in T
  BY <1>2 DEF Sums
<1>4. ASSUME NEW B \in SUBSET A, NEW x \in A, B \in T, x \notin B PROVE B \cup {x} \in T
  <2>1. /\ B \cup {x} \in SUBSET A /\ B \cup {x} \in SUBSET S
        /\ (B \cup {x}) \ {x} = B /\ x \in B \cup {x} /\ x \in S
    BY <1>4
  <2>2. h[B \cup {x}] = f[x] + h[(B \cup {x}) \ {x}]
    BY <1>a, <2>1
  <2>3. g[B \cup {x}] = f[x] + g[(B \cup {x}) \ {x}]
    BY <1>b, <2>1
  <2> QED
    BY <1>4, <2>1, <2>2, <2>3
<1>5. SUBSET A \subseteq T
  <2> HIDE DEF T
  <2> QED
    BY <1>1, <1>3, <1>4, FiniteInductive
<1> QED
  BY <1>2, <1>5

(* A sum of integers is one, that of nothing is 0, and any element can be   *)
(* taken out first.                                                          *)
LEMMA SumBasics ==
    ASSUME NEW S, IsFiniteSet(S), NEW f, \A x \in S : f[x] \in Int
    PROVE  /\ SumFunctionOnSet(f, S) \in Int
           /\ S = {} => SumFunctionOnSet(f, S) = 0
           /\ \A x \in S : SumFunctionOnSet(f, S) = f[x] + SumFunctionOnSet(f, S \ {x})
<1>1. PICK g : Sums(f, S, g)
  BY SumsExist
<1>2. \A A \in SUBSET S : SumFunctionOnSet(f, A) = g[A]
  BY <1>1, SumOfSubset
<1>3. g[S] \in Int /\ (S = {} => g[S] = 0)
  BY <1>1 DEF Sums
<1>4. ASSUME NEW x \in S PROVE g[S] = f[x] + g[S \ {x}]
  BY <1>1, SumsAnyOrder
<1>5. \A x \in S : S \ {x} \in SUBSET S
  OBVIOUS
<1> QED
  BY <1>2, <1>3, <1>4, <1>5

(* One more summand.                                                        *)
LEMMA SumAdd ==
    ASSUME NEW S, IsFiniteSet(S), NEW f, \A y \in S : f[y] \in Int,
           NEW x, x \notin S, f[x] \in Int
    PROVE  SumFunctionOnSet(f, S \cup {x}) = f[x] + SumFunctionOnSet(f, S)
<1>1. IsFiniteSet(S \cup {x})
  BY FS_AddElement
<1>2. (S \cup {x}) \ {x} = S
  OBVIOUS
<1>3. \A y \in S \cup {x} : f[y] \in Int
  OBVIOUS
<1>4. SumFunctionOnSet(f, S \cup {x}) = f[x] + SumFunctionOnSet(f, (S \cup {x}) \ {x})
  BY <1>1, <1>3, SumBasics
<1> QED
  BY <1>2, <1>4

(* Sums compare as their terms do.                                           *)
LEMMA SumAtMost ==
    ASSUME NEW S, IsFiniteSet(S), NEW f, NEW h,
           \A x \in S : f[x] \in Int /\ h[x] \in Int /\ f[x] <= h[x]
    PROVE  SumFunctionOnSet(f, S) <= SumFunctionOnSet(h, S)
<1> DEFINE T == {A \in SUBSET S : SumFunctionOnSet(f, A) <= SumFunctionOnSet(h, A)}
<1>1. {} \in T
  <2>1. SumFunctionOnSet(f, {}) = 0 /\ SumFunctionOnSet(h, {}) = 0
    BY FS_EmptySet, SumBasics
  <2> QED
    BY <2>1
<1>2. ASSUME NEW A \in SUBSET S, NEW x \in S, A \in T, x \notin A PROVE A \cup {x} \in T
  <2>1. IsFiniteSet(A)
    BY FS_Subset
  <2>2. /\ SumFunctionOnSet(f, A \cup {x}) = f[x] + SumFunctionOnSet(f, A)
        /\ SumFunctionOnSet(h, A \cup {x}) = h[x] + SumFunctionOnSet(h, A)
    BY <1>2, <2>1, SumAdd
  <2>3. SumFunctionOnSet(f, A) \in Int /\ SumFunctionOnSet(h, A) \in Int
    BY <2>1, SumBasics
  <2> QED
    BY <1>2, <2>2, <2>3
<1>3. SUBSET S \subseteq T
  <2> HIDE DEF T
  <2> QED
    BY <1>1, <1>2, FiniteInductive
<1> QED
  BY <1>3

(* Sums of the same terms are the same.                                     *)
LEMMA SumSame ==
    ASSUME NEW S, IsFiniteSet(S), NEW f, NEW h,
           \A x \in S : f[x] \in Int /\ h[x] = f[x]
    PROVE  SumFunctionOnSet(h, S) = SumFunctionOnSet(f, S)
<1>1. /\ SumFunctionOnSet(h, S) <= SumFunctionOnSet(f, S)
      /\ SumFunctionOnSet(f, S) <= SumFunctionOnSet(h, S)
  BY SumAtMost
<1>2. SumFunctionOnSet(h, S) \in Int /\ SumFunctionOnSet(f, S) \in Int
  BY SumBasics
<1> QED
  BY <1>1, <1>2

(* A sum over two sets with nothing in common.                               *)
LEMMA SumUnion ==
    ASSUME NEW A, NEW B, IsFiniteSet(A), IsFiniteSet(B), A \cap B = {},
           NEW f, \A x \in A \cup B : f[x] \in Int
    PROVE  SumFunctionOnSet(f, A \cup B) = SumFunctionOnSet(f, A) + SumFunctionOnSet(f, B)
<1> DEFINE T == {C \in SUBSET B :
                    SumFunctionOnSet(f, A \cup C) = SumFunctionOnSet(f, A) + SumFunctionOnSet(f, C)}
<1>0. SumFunctionOnSet(f, A) \in Int
  BY SumBasics
<1>1. {} \in T
  <2>1. SumFunctionOnSet(f, {}) = 0
    BY FS_EmptySet, SumBasics
  <2>2. A \cup {} = A
    OBVIOUS
  <2> QED
    BY <1>0, <2>1, <2>2
<1>2. ASSUME NEW C \in SUBSET B, NEW x \in B, C \in T, x \notin C PROVE C \cup {x} \in T
  <2>1. IsFiniteSet(C) /\ IsFiniteSet(A \cup C) /\ x \notin A \cup C
    BY <1>2, FS_Subset, FS_Union
  <2>2. SumFunctionOnSet(f, (A \cup C) \cup {x}) = f[x] + SumFunctionOnSet(f, A \cup C)
    BY <2>1, SumAdd
  <2>3. SumFunctionOnSet(f, C \cup {x}) = f[x] + SumFunctionOnSet(f, C)
    BY <1>2, <2>1, SumAdd
  <2>4. (A \cup C) \cup {x} = A \cup (C \cup {x})
    OBVIOUS
  <2>5. SumFunctionOnSet(f, C) \in Int /\ f[x] \in Int
    BY <2>1, SumBasics
  <2>6. SumFunctionOnSet(f, A \cup C) = SumFunctionOnSet(f, A) + SumFunctionOnSet(f, C)
    BY <1>2
  <2>7. SumFunctionOnSet(f, A \cup (C \cup {x})) = f[x] + SumFunctionOnSet(f, A \cup C)
    BY <2>2, <2>4
  <2>8. SumFunctionOnSet(f, A \cup (C \cup {x}))
        = SumFunctionOnSet(f, A) + SumFunctionOnSet(f, C \cup {x})
    BY <1>0, <2>3, <2>5, <2>6, <2>7
  <2> QED
    BY <2>8
<1>3. SUBSET B \subseteq T
  <2> HIDE DEF T
  <2> QED
    BY <1>1, <1>2, FiniteInductive
<1> QED
  BY <1>3

(* What is not negative adds nothing negative.                               *)
LEMMA SumNat ==
    ASSUME NEW S, IsFiniteSet(S), NEW f, \A x \in S : f[x] \in Nat
    PROVE  SumFunctionOnSet(f, S) \in Nat
<1> DEFINE T == {A \in SUBSET S : SumFunctionOnSet(f, A) \in Nat}
<1>1. {} \in T
  BY FS_EmptySet, SumBasics
<1>2. ASSUME NEW A \in SUBSET S, NEW x \in S, A \in T, x \notin A PROVE A \cup {x} \in T
  <2>1. IsFiniteSet(A) /\ \A y \in S : f[y] \in Int
    BY FS_Subset
  <2>2. SumFunctionOnSet(f, A \cup {x}) = f[x] + SumFunctionOnSet(f, A)
    BY <1>2, <2>1, SumAdd
  <2> QED
    BY <1>2, <2>2
<1>3. SUBSET S \subseteq T
  <2> HIDE DEF T
  <2> QED
    BY <1>1, <1>2, FiniteInductive
<1> QED
  BY <1>3

(* A part of a sum of natural numbers is not above it.                      *)
LEMMA SumSubset ==
    ASSUME NEW S, IsFiniteSet(S), NEW f, \A x \in S : f[x] \in Nat, NEW A \in SUBSET S
    PROVE  SumFunctionOnSet(f, A) <= SumFunctionOnSet(f, S)
<1>1. IsFiniteSet(A) /\ IsFiniteSet(S \ A)
  BY FS_Subset
<1>2. SumFunctionOnSet(f, A) \in Nat /\ SumFunctionOnSet(f, S \ A) \in Nat
  BY <1>1, SumNat
<1>3. SumFunctionOnSet(f, S) = SumFunctionOnSet(f, A) + SumFunctionOnSet(f, S \ A)
  <2> DEFINE B == S \ A
  <2>1. A \cap B = {} /\ A \cup B = S /\ \A x \in A \cup B : f[x] \in Int
    OBVIOUS
  <2> HIDE DEF B
  <2>2. SumFunctionOnSet(f, A \cup B) = SumFunctionOnSet(f, A) + SumFunctionOnSet(f, B)
    BY <1>1, <2>1, SumUnion DEF B
  <2> QED
    BY <2>1, <2>2 DEF B
<1> QED
  BY <1>2, <1>3

(* The sum of one term.                                                     *)
LEMMA SumSingle ==
    ASSUME NEW f, NEW x, f[x] \in Int
    PROVE  SumFunctionOnSet(f, {x}) = f[x]
<1>1. SumFunctionOnSet(f, {} \cup {x}) = f[x] + SumFunctionOnSet(f, {})
  BY FS_EmptySet, SumAdd
<1>2. SumFunctionOnSet(f, {}) = 0
  BY FS_EmptySet, SumBasics
<1>3. {} \cup {x} = {x}
  OBVIOUS
<1> QED
  BY <1>1, <1>2, <1>3

(* A sum by parts: each x of S belongs to the part key[x].                   *)
SumsByKey(f, S, I, key, part) ==
    /\ \A x \in S : key[x] \in I
    /\ \A i \in I : part[i] = SumFunctionOnSet(f, {x \in S : key[x] = i})

(* The whole is the sum of its parts.                                       *)
LEMMA SumParts ==
    ASSUME NEW S, IsFiniteSet(S), NEW f, \A x \in S : f[x] \in Int,
           NEW I, IsFiniteSet(I), NEW key, NEW part, SumsByKey(f, S, I, key, part)
    PROVE  SumFunctionOnSet(f, S) = SumFunctionOnSet(part, I)
<1> DEFINE In(J) == {x \in S : key[x] \in J}
           T == {J \in SUBSET I : SumFunctionOnSet(f, In(J)) = SumFunctionOnSet(part, J)}
<1>0. /\ \A x \in S : key[x] \in I
      /\ \A i \in I : part[i] = SumFunctionOnSet(f, {x \in S : key[x] = i})
  BY DEF SumsByKey
<1>1. ASSUME NEW i \in I PROVE part[i] \in Int
  <2> DEFINE A == {x \in S : key[x] = i}
  <2>1. IsFiniteSet(A) /\ \A x \in A : f[x] \in Int
    BY FS_Subset
  <2>2. part[i] = SumFunctionOnSet(f, A)
    BY <1>0
  <2> HIDE DEF A
  <2> QED
    BY <2>1, <2>2, SumBasics
<1>2. {} \in T
  <2>1. In({}) = {}
    OBVIOUS
  <2>2. SumFunctionOnSet(f, {}) = 0 /\ SumFunctionOnSet(part, {}) = 0
    BY FS_EmptySet, SumBasics
  <2> QED
    BY <2>1, <2>2
<1>3. ASSUME NEW J \in SUBSET I, NEW i \in I, J \in T, i \notin J PROVE J \cup {i} \in T
  <2> DEFINE A == In(J)
             B == {x \in S : key[x] = i}
  <2>1. /\ IsFiniteSet(A) /\ IsFiniteSet(B) /\ A \cap B = {}
        /\ \A x \in A \cup B : f[x] \in Int
    BY <1>3, FS_Subset
  <2>2. In(J \cup {i}) = A \cup B
    OBVIOUS
  <2>3. part[i] = SumFunctionOnSet(f, B) /\ SumFunctionOnSet(f, A) = SumFunctionOnSet(part, J)
    BY <1>0, <1>3
  <2> HIDE DEF A, B, In
  <2>4. SumFunctionOnSet(f, A \cup B) = SumFunctionOnSet(f, A) + SumFunctionOnSet(f, B)
    BY <2>1, SumUnion
  <2>5. IsFiniteSet(J)
    BY FS_Subset
  <2>6. SumFunctionOnSet(part, J \cup {i}) = part[i] + SumFunctionOnSet(part, J)
    BY <1>1, <1>3, <2>5, SumAdd
  <2>7. part[i] \in Int /\ SumFunctionOnSet(part, J) \in Int
    BY <1>1, <2>5, SumBasics
  <2>8. SumFunctionOnSet(f, In(J \cup {i})) = SumFunctionOnSet(part, J \cup {i})
    <3>1. SumFunctionOnSet(f, In(J \cup {i})) = SumFunctionOnSet(f, A \cup B)
      BY <2>2
    <3>2. SumFunctionOnSet(f, A \cup B) = SumFunctionOnSet(part, J) + part[i]
      BY <2>3, <2>4
    <3> QED
      BY <3>1, <3>2, <2>6, <2>7
  <2> QED
    BY <2>8 DEF In
<1>4. SUBSET I \subseteq T
  <2> HIDE DEF T
  <2> QED
    BY <1>2, <1>3, FiniteInductive
<1>5. In(I) = S
  BY <1>0
<1> QED
  BY <1>4, <1>5

(* Counting is adding up ones.                                               *)
LEMMA SumOfOnes ==
    ASSUME NEW S, IsFiniteSet(S), NEW one, \A x \in S : one[x] = 1
    PROVE  SumFunctionOnSet(one, S) = Cardinality(S)
<1> DEFINE T == {A \in SUBSET S : SumFunctionOnSet(one, A) = Cardinality(A)}
<1>1. {} \in T
  BY FS_EmptySet, SumBasics
<1>2. ASSUME NEW A \in SUBSET S, NEW x \in S, A \in T, x \notin A PROVE A \cup {x} \in T
  <2>1. IsFiniteSet(A) /\ one[x] = 1 /\ one[x] \in Int /\ \A y \in A : one[y] \in Int
    BY FS_Subset
  <2>2. SumFunctionOnSet(one, A \cup {x}) = one[x] + SumFunctionOnSet(one, A)
    BY <1>2, <2>1, SumAdd
  <2>3. Cardinality(A \cup {x}) = Cardinality(A) + 1 /\ Cardinality(A) \in Nat
    BY <1>2, <2>1, FS_AddElement, FS_CardinalityType
  <2>4. SumFunctionOnSet(one, A) = Cardinality(A)
    BY <1>2
  <2>5. SumFunctionOnSet(one, A \cup {x}) = Cardinality(A \cup {x})
    BY <2>1, <2>2, <2>3, <2>4
  <2> QED
    BY <2>5
<1>3. SUBSET S \subseteq T
  <2> HIDE DEF T
  <2> QED
    BY <1>1, <1>2, FiniteInductive
<1> QED
  BY <1>3

(* part has the sum over each of some sets.                                  *)
SumsOf(f, I, A, part) == \A i \in I : part[i] = SumFunctionOnSet(f, A[i])

(* A sum of sums over sets that may overlap counts each element once at     *)
(* least,                                                                    *)
LEMMA SumOverUnion ==
    ASSUME NEW I, IsFiniteSet(I), NEW S, IsFiniteSet(S), NEW f, \A x \in S : f[x] \in Nat,
           NEW A, \A i \in I : A[i] \in SUBSET S,
           NEW part, SumsOf(f, I, A, part)
    PROVE  SumFunctionOnSet(f, UNION {A[i] : i \in I}) <= SumFunctionOnSet(part, I)
<1> DEFINE Un(J) == UNION {A[i] : i \in J}
           T == {J \in SUBSET I : SumFunctionOnSet(f, Un(J)) <= SumFunctionOnSet(part, J)}
<1>1. ASSUME NEW i \in I PROVE part[i] \in Nat
  <2>1. IsFiniteSet(A[i]) /\ \A x \in A[i] : f[x] \in Nat
    BY FS_Subset
  <2>2. part[i] = SumFunctionOnSet(f, A[i])
    BY DEF SumsOf
  <2> QED
    BY <2>1, <2>2, SumNat
<1>2. {} \in T
  <2>1. Un({}) = {}
    OBVIOUS
  <2> HIDE DEF Un
  <2>2. SumFunctionOnSet(f, {}) = 0 /\ SumFunctionOnSet(part, {}) = 0
    BY FS_EmptySet, SumBasics
  <2>3. SumFunctionOnSet(f, Un({})) = 0
    BY <2>1, <2>2
  <2>4. SumFunctionOnSet(f, Un({})) <= SumFunctionOnSet(part, {})
    BY <2>2, <2>3
  <2> QED
    BY <2>4
<1>3. ASSUME NEW J \in SUBSET I, NEW i \in I, J \in T, i \notin J PROVE J \cup {i} \in T
  <2> DEFINE B == Un(J)
             C == A[i] \ B
  <2>1. A[i] \in SUBSET S /\ B \in SUBSET S /\ Un(J \cup {i}) = B \cup C
    OBVIOUS
  <2>2. /\ IsFiniteSet(B) /\ IsFiniteSet(C) /\ IsFiniteSet(A[i]) /\ B \cap C = {}
        /\ C \in SUBSET A[i] /\ \A x \in B \cup C : f[x] \in Int
    BY <2>1, FS_Subset
  <2>3. SumFunctionOnSet(f, B) <= SumFunctionOnSet(part, J)
    BY <1>3
  <2> HIDE DEF B, C, Un
  <2>4. SumFunctionOnSet(f, B \cup C) = SumFunctionOnSet(f, B) + SumFunctionOnSet(f, C)
    BY <2>2, SumUnion
  <2>5. SumFunctionOnSet(f, C) <= SumFunctionOnSet(f, A[i])
    <3>1. \A x \in A[i] : f[x] \in Nat
      BY <2>1
    <3> QED
      BY <2>2, <3>1, SumSubset
  <2>6. IsFiniteSet(J) /\ \A j \in J \cup {i} : part[j] \in Int
    BY <1>1, FS_Subset
  <2>7. SumFunctionOnSet(part, J \cup {i}) = part[i] + SumFunctionOnSet(part, J)
    BY <1>3, <2>6, SumAdd
  <2>8. /\ part[i] \in Int /\ SumFunctionOnSet(part, J) \in Int
        /\ SumFunctionOnSet(f, B) \in Int /\ SumFunctionOnSet(f, C) \in Int
        /\ part[i] = SumFunctionOnSet(f, A[i])
    <3>1. \A x \in B : f[x] \in Int
      BY <2>2
    <3>2. \A x \in C : f[x] \in Int
      BY <2>2
    <3>3. part[i] = SumFunctionOnSet(f, A[i])
      BY DEF SumsOf
    <3> QED
      BY <2>2, <2>6, <3>1, <3>2, <3>3, SumBasics
  <2>9. SumFunctionOnSet(f, Un(J \cup {i})) <= SumFunctionOnSet(part, J \cup {i})
    <3>1. SumFunctionOnSet(f, Un(J \cup {i})) = SumFunctionOnSet(f, B \cup C)
      BY <2>1
    <3>2. SumFunctionOnSet(f, B \cup C) <= SumFunctionOnSet(part, J) + part[i]
      <4>1. SumFunctionOnSet(part, J) \in Int
        BY <2>8
      <4> QED
        BY <2>3, <2>4, <2>5, <2>8, <4>1
    <3> QED
      BY <3>1, <3>2, <2>7, <2>8
  <2> QED
    BY <2>9
<1>4. SUBSET I \subseteq T
  <2> HIDE DEF T
  <2> QED
    BY <1>2, <1>3, FiniteInductive
<1> QED
  BY <1>4

(* and of sums over sets that share no element, exactly once.               *)
LEMMA SumOverParts ==
    ASSUME NEW I, IsFiniteSet(I), NEW S, IsFiniteSet(S), NEW f, \A x \in S : f[x] \in Int,
           NEW A, \A i \in I : A[i] \in SUBSET S,
           \A i, j \in I : i # j => A[i] \cap A[j] = {},
           NEW part, SumsOf(f, I, A, part)
    PROVE  SumFunctionOnSet(f, UNION {A[i] : i \in I}) = SumFunctionOnSet(part, I)
<1> DEFINE R == UNION {A[i] : i \in I}
           key == [x \in R |-> CHOOSE i \in I : x \in A[i]]
<1>1. R \subseteq S /\ IsFiniteSet(R) /\ \A x \in R : f[x] \in Int
  <2>1. R \subseteq S
    OBVIOUS
  <2> HIDE DEF R
  <2> QED
    BY <2>1, FS_Subset
<1>2. ASSUME NEW x \in R PROVE key[x] \in I /\ x \in A[key[x]]
  <2>1. \E i \in I : x \in A[i]
    OBVIOUS
  <2> QED
    BY <2>1
<1>3. ASSUME NEW i \in I PROVE A[i] = {x \in R : key[x] = i}
  <2>1. A[i] \subseteq R
    OBVIOUS
  <2> HIDE DEF R, key
  <2> QED
    BY <1>2, <2>1
<1> HIDE DEF R, key
<1>4. SumsByKey(f, R, I, key, part)
  BY <1>2, <1>3 DEF SumsByKey, SumsOf
<1>5. SumFunctionOnSet(f, R) = SumFunctionOnSet(part, I)
  BY <1>1, <1>4, SumParts
<1> QED
  BY <1>5 DEF R

(* The values of a function on a finite set are finitely many.               *)
LEMMA ImageFinite ==
    ASSUME NEW S, IsFiniteSet(S), NEW f
    PROVE  IsFiniteSet({f[x] : x \in S})
<1> DEFINE T == {f[x] : x \in S}
           g == [x \in S |-> f[x]]
<1>1. g \in Surjection(S, T)
  BY DEF Surjection
<1> HIDE DEF g, T
<1>2. IsFiniteSet(T)
  BY <1>1, FS_Surjection
<1> QED
  BY <1>2 DEF T
=============================================================================

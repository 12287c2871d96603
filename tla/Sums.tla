-------------------------------- MODULE Sums --------------------------------
(***************************************************************************)
(* Lemmas about sums over finite sets, and the form of induction they are  *)
(* proved by: no set of natural numbers, of counterexamples in particular, *)
(* is without a least one.                                                 *)
(***************************************************************************)
EXTENDS Integers, FiniteSets, Functions, FiniteSetTheorems, WellFoundedInduction, TLAPS

(* Every set of natural numbers has a least one. *)
LEMMA LeastNumber ==
  ASSUME NEW T \in SUBSET Nat, T # {}
  PROVE  \E x \in T : \A y \in T : x <= y
<1> DEFINE R == OpToRel(<, Nat)
<1>1. IsWellFoundedOn(R, Nat)
  BY NatLessThanWellFounded
<1>2. \A x, y \in Nat : <<y, x>> \in R <=> y < x
  BY DEF OpToRel
<1> HIDE DEF R
<1>3. PICK x \in T : \A y \in T : ~(<<y, x>> \in R)
  BY <1>1, WFMin
<1>4. \A y \in T : y \in Nat /\ x \in Nat /\ ~(y < x)
  BY <1>2, <1>3
<1> QED  BY <1>4

(* Subsets of a finite set are finite, and smaller without an element. *)
LEMMA Smaller ==
  ASSUME NEW S, IsFiniteSet(S)
  PROVE  /\ \A s \in SUBSET S : IsFiniteSet(s) /\ Cardinality(s) \in Nat
         /\ \A s \in SUBSET S : \A x \in s : /\ s \ {x} \in SUBSET S
                                             /\ Cardinality(s \ {x}) = Cardinality(s) - 1
<1>1. \A s \in SUBSET S : IsFiniteSet(s) /\ Cardinality(s) \in Nat
  BY FS_Subset, FS_CardinalityType
<1>2. ASSUME NEW s \in SUBSET S, NEW x \in s
      PROVE  Cardinality(s \ {x}) = Cardinality(s) - 1
  BY <1>1, FS_RemoveElement
<1> QED  BY <1>1, <1>2

(* Of some subsets of a finite set one is smallest. *)
LEMMA SmallestSet ==
  ASSUME NEW S, IsFiniteSet(S), NEW B \in SUBSET SUBSET S, B # {}
  PROVE  \E s \in B : \A x \in s : s \ {x} \notin B
<1> DEFINE T == {Cardinality(s) : s \in B}
<1>1. T \in SUBSET Nat /\ T # {}
  BY Smaller
<1>2. PICK n \in T : \A m \in T : n <= m
  BY <1>1, LeastNumber
<1>3. PICK s \in B : n = Cardinality(s)
  OBVIOUS
<1>4. ASSUME NEW x \in s, s \ {x} \in B
      PROVE  FALSE
  <2>1. Cardinality(s \ {x}) = n - 1 /\ n \in Nat
    BY <1>3, Smaller
  <2>2. n <= n - 1
    BY <1>2, <1>4, <2>1
  <2> QED  BY <2>1, <2>2
<1> QED  BY <1>4
-----------------------------------------------------------------------------
(* The recursion behind SumFunctionOnSet. *)

Pick(s) == CHOOSE x \in s : TRUE

Adds(w, D, g) == g = [s \in D |-> IF s = {} THEN 0 ELSE w[Pick(s)] + g[s \ {Pick(s)}]]

(* On all subsets of S, and on those of up to n elements. *)
AddsAll(w, S, g) == Adds(w, SUBSET S, g)

AddsUpTo(w, S, n, g) == Adds(w, {s \in SUBSET S : Cardinality(s) <= n}, g)

LEMMA AddsFacts ==
  ASSUME NEW w, NEW S, NEW g, AddsAll(w, S, g)
  PROVE  \A s \in SUBSET S :
           /\ s = {} => g[s] = 0
           /\ s # {} => Pick(s) \in s /\ g[s] = w[Pick(s)] + g[s \ {Pick(s)}]
<1>1. \A s \in SUBSET S : s # {} => Pick(s) \in s
  BY DEF Pick
<1>2. \A s \in SUBSET S : g[s] = IF s = {} THEN 0 ELSE w[Pick(s)] + g[s \ {Pick(s)}]
  BY DEF AddsAll, Adds
<1> QED  BY <1>1, <1>2

(* It has a solution on sets of up to n elements, for each n ... *)
LEMMA AddsUpToExists ==
  ASSUME NEW w, NEW S, IsFiniteSet(S), NEW n \in Nat
  PROVE  \E g : AddsUpTo(w, S, n, g)
<1> DEFINE D(m) == {s \in SUBSET S : Cardinality(s) <= m}
           T == {m \in Nat : ~\E g : Adds(w, D(m), g)}
<1> SUFFICES ASSUME T # {} PROVE FALSE
  BY DEF AddsUpTo
<1>1. PICK m \in T : \A k \in T : m <= k
  BY LeastNumber
<1>2. \A s \in SUBSET S : s # {} => Pick(s) \in s
  BY DEF Pick
<1>3. CASE m = 0
  <2> DEFINE g == [s \in D(0) |-> 0]
  <2>1. \A s \in D(0) : s = {}
    BY Smaller, FS_EmptySet
  <2>2. Adds(w, D(0), g)
    BY <2>1 DEF Adds
  <2> QED  BY <1>1, <1>3, <2>2
<1>4. CASE m # 0
  <2>1. m - 1 \in Nat /\ m - 1 \notin T
    <3>1. m \in Nat /\ \A k \in T : m <= k
      BY <1>1
    <3> HIDE DEF T
    <3> QED  BY <3>1, <1>4
  <2>2. PICK g : Adds(w, D(m - 1), g)
    BY <2>1
  <2> DEFINE h == [s \in D(m) |-> IF s = {} THEN 0 ELSE w[Pick(s)] + g[s \ {Pick(s)}]]
  <2>3. \A s \in D(m - 1) : g[s] = h[s]
    <3>1. D(m - 1) \subseteq D(m)
      BY Smaller, <2>1
    <3>2. \A s \in D(m - 1) : g[s] = IF s = {} THEN 0 ELSE w[Pick(s)] + g[s \ {Pick(s)}]
      BY <2>2 DEF Adds
    <3> HIDE DEF D
    <3> QED  BY <3>1, <3>2
  <2>4. \A s \in D(m) : s # {} => s \ {Pick(s)} \in D(m - 1)
    BY <1>2, Smaller
  <2>5. \A s \in D(m) : s # {} => g[s \ {Pick(s)}] = h[s \ {Pick(s)}]
    BY <2>3, <2>4
  <2>6. h = [s \in D(m) |-> IF s = {} THEN 0 ELSE w[Pick(s)] + h[s \ {Pick(s)}]]
    <3> DEFINE f == [s \in D(m) |-> IF s = {} THEN 0 ELSE w[Pick(s)] + h[s \ {Pick(s)}]]
    <3>1. \A s \in D(m) : h[s] = IF s = {} THEN 0 ELSE w[Pick(s)] + g[s \ {Pick(s)}]
      OBVIOUS
    <3> HIDE DEF h, D
    <3>2. \A s \in D(m) : h[s] = f[s]
      BY <3>1, <2>5
    <3>3. h = [s \in D(m) |-> h[s]]
      BY DEF h
    <3> QED  BY <3>2, <3>3
  <2>7. Adds(w, D(m), h)
    <3> HIDE DEF h, D
    <3> QED  BY <2>6 DEF Adds
  <2> QED  BY <1>1, <2>7
<1> QED  BY <1>3, <1>4

(* ... and so on all subsets, and the sum is its value. *)
LEMMA SumIsAdded ==
  ASSUME NEW w, NEW S, IsFiniteSet(S)
  PROVE  \E g : AddsAll(w, S, g) /\ SumFunctionOnSet(w, S) = g[S]
<1>1. \A s \in SUBSET S : Cardinality(s) <= Cardinality(S)
  BY FS_Subset
<1>2. {s \in SUBSET S : Cardinality(s) <= Cardinality(S)} = SUBSET S
  BY <1>1
<1>3. \E g : AddsAll(w, S, g)
  <2> DEFINE n == Cardinality(S)
  <2>1. n \in Nat
    BY FS_CardinalityType
  <2> HIDE DEF n
  <2>2. \E g : AddsUpTo(w, S, n, g)
    BY <2>1, AddsUpToExists
  <2> QED  BY <1>2, <2>2 DEF n, AddsUpTo, AddsAll
<1> DEFINE h == CHOOSE g : AddsAll(w, S, g)
<1>4. AddsAll(w, S, h)
  BY <1>3
<1>5. SumFunctionOnSet(w, S) = h[S]
  BY DEF SumFunctionOnSet, FoldFunctionOnSet, MapThenFoldSet, AddsAll, Adds, Pick
<1> QED  BY <1>4, <1>5

(* Solutions agree where both are defined. *)
LEMMA AddsUnique ==
  ASSUME NEW w, NEW S, IsFiniteSet(S), NEW g, AddsAll(w, S, g),
         NEW T \in SUBSET S, NEW h, AddsAll(w, T, h)
  PROVE  g[T] = h[T]
<1> DEFINE B == {s \in SUBSET T : g[s] # h[s]}
<1>0. IsFiniteSet(T)
  BY FS_Subset
<1>a. \A s \in SUBSET S :
        /\ s = {} => g[s] = 0
        /\ s # {} => Pick(s) \in s /\ g[s] = w[Pick(s)] + g[s \ {Pick(s)}]
  <2>1. \A s \in SUBSET S : g[s] = IF s = {} THEN 0 ELSE w[Pick(s)] + g[s \ {Pick(s)}]
    BY DEF AddsAll, Adds
  <2>2. \A s \in SUBSET S : s # {} => Pick(s) \in s
    BY DEF Pick
  <2> QED  BY <2>1, <2>2
<1>1. ASSUME B # {}
      PROVE  FALSE
  <2>1. PICK s \in B : \A x \in s : s \ {x} \notin B
    BY <1>0, <1>1, SmallestSet
  <2>2. s \in SUBSET S /\ s \in SUBSET T /\ g[s] # h[s]
    OBVIOUS
  <2>3. /\ s = {} => g[s] = 0
        /\ s # {} => Pick(s) \in s /\ g[s] = w[Pick(s)] + g[s \ {Pick(s)}]
    BY <2>2, <1>a
  <2>4. /\ s = {} => h[s] = 0
        /\ s # {} => h[s] = w[Pick(s)] + h[s \ {Pick(s)}]
    BY <2>2, AddsFacts
  <2>5. s # {} /\ Pick(s) \in s
    BY <2>2, <2>3, <2>4
  <2>6. g[s \ {Pick(s)}] = h[s \ {Pick(s)}]
    BY <2>1, <2>2, <2>5
  <2> QED  BY <2>2, <2>3, <2>4, <2>5, <2>6
<1> QED  BY <1>1

(* Hence the recursion holds of the sums themselves. *)
LEMMA SumRecursion ==
  ASSUME NEW w, NEW S, IsFiniteSet(S)
  PROVE  /\ S = {} => SumFunctionOnSet(w, S) = 0
         /\ S # {} => /\ Pick(S) \in S
                      /\ SumFunctionOnSet(w, S)
                           = w[Pick(S)] + SumFunctionOnSet(w, S \ {Pick(S)})
<1> DEFINE T == S \ {Pick(S)}
<1>1. PICK g : AddsAll(w, S, g) /\ SumFunctionOnSet(w, S) = g[S]
  BY SumIsAdded
<1>2. IsFiniteSet(T) /\ T \in SUBSET S
  BY FS_Subset
<1> HIDE DEF T
<1>3. PICK h : AddsAll(w, T, h) /\ SumFunctionOnSet(w, T) = h[T]
  BY <1>2, SumIsAdded
<1>4. g[T] = h[T]
  BY <1>1, <1>2, <1>3, AddsUnique
<1>5. S \in SUBSET S
  OBVIOUS
<1>6. /\ S = {} => g[S] = 0
      /\ S # {} => Pick(S) \in S /\ g[S] = w[Pick(S)] + g[T]
  BY <1>1, <1>5, AddsFacts DEF T
<1> QED  BY <1>1, <1>3, <1>4, <1>6 DEF T
-----------------------------------------------------------------------------
(* Sums. *)

LEMMA SumType ==
  ASSUME NEW S, IsFiniteSet(S), NEW w, \A x \in S : w[x] \in Int
  PROVE  SumFunctionOnSet(w, S) \in Int
<1> DEFINE B == {s \in SUBSET S : SumFunctionOnSet(w, s) \notin Int}
<1>1. ASSUME B # {}
      PROVE  FALSE
  <2>1. PICK s \in B : \A x \in s : s \ {x} \notin B
    BY <1>1, SmallestSet
  <2>2. s \in SUBSET S /\ IsFiniteSet(s) /\ SumFunctionOnSet(w, s) \notin Int
    BY Smaller
  <2>3. /\ s = {} => SumFunctionOnSet(w, s) = 0
        /\ s # {} => /\ Pick(s) \in s
                     /\ SumFunctionOnSet(w, s) = w[Pick(s)] + SumFunctionOnSet(w, s \ {Pick(s)})
    BY <2>2, SumRecursion
  <2>4. s # {} /\ Pick(s) \in s
    BY <2>2, <2>3
  <2>5. SumFunctionOnSet(w, s \ {Pick(s)}) \in Int
    BY <2>1, <2>2, <2>4
  <2>6. w[Pick(s)] \in Int
    BY <2>2, <2>4
  <2> QED  BY <2>2, <2>3, <2>4, <2>5, <2>6
<1>2. S \in SUBSET S
  OBVIOUS
<1> QED  BY <1>1, <1>2

(* Any element may be taken out of the sum. *)
LEMMA SumRemove ==
  ASSUME NEW S, IsFiniteSet(S), NEW w, \A x \in S : w[x] \in Int, NEW x \in S
  PROVE  SumFunctionOnSet(w, S) = w[x] + SumFunctionOnSet(w, S \ {x})
<1> DEFINE Sum(s) == SumFunctionOnSet(w, s)
           B == {s \in SUBSET S : \E y \in s : Sum(s) # w[y] + Sum(s \ {y})}
<1>0. \A s \in SUBSET S : Sum(s) \in Int
  <2> SUFFICES ASSUME NEW s \in SUBSET S PROVE Sum(s) \in Int
    OBVIOUS
  <2>1. IsFiniteSet(s) /\ \A y \in s : w[y] \in Int
    BY Smaller
  <2> QED  BY <2>1, SumType
<1>1. ASSUME B # {}
      PROVE  FALSE
  <2>1. PICK s \in B : \A y \in s : s \ {y} \notin B
    BY <1>1, SmallestSet
  <2>2. s \in SUBSET S /\ IsFiniteSet(s)
    BY Smaller
  <2>3. PICK y \in s : Sum(s) # w[y] + Sum(s \ {y})
    BY <2>1
  <2> DEFINE p == Pick(s)
  <2>4. p \in s /\ Sum(s) = w[p] + Sum(s \ {p})
    BY <2>2, <2>3, SumRecursion
  <2> HIDE DEF p, Sum
  <2>5. p # y
    BY <2>3, <2>4
  <2>6. /\ s \ {p} \notin B /\ s \ {p} \in SUBSET S /\ y \in s \ {p}
        /\ s \ {y} \notin B /\ s \ {y} \in SUBSET S /\ p \in s \ {y}
    BY <2>1, <2>2, <2>3, <2>4, <2>5
  <2>7. /\ Sum(s \ {p}) = w[y] + Sum((s \ {p}) \ {y})
        /\ Sum(s \ {y}) = w[p] + Sum((s \ {y}) \ {p})
    BY <2>6
  <2>8. (s \ {y}) \ {p} = (s \ {p}) \ {y} /\ (s \ {p}) \ {y} \in SUBSET S
    BY <2>2
  <2>9. w[p] \in Int /\ w[y] \in Int /\ Sum((s \ {p}) \ {y}) \in Int
    BY <1>0, <2>2, <2>3, <2>4, <2>8
  <2> QED  BY <2>3, <2>4, <2>7, <2>8, <2>9
<1>2. S \in SUBSET S
  OBVIOUS
<1> QED  BY <1>1, <1>2

(* Equal summands have equal sums. *)
LEMMA SumSame ==
  ASSUME NEW S, IsFiniteSet(S), NEW v, NEW w, \A x \in S : v[x] = w[x]
  PROVE  SumFunctionOnSet(v, S) = SumFunctionOnSet(w, S)
<1> DEFINE B == {s \in SUBSET S : SumFunctionOnSet(v, s) # SumFunctionOnSet(w, s)}
<1>1. ASSUME B # {}
      PROVE  FALSE
  <2>1. PICK s \in B : \A x \in s : s \ {x} \notin B
    BY <1>1, SmallestSet
  <2>2. s \in SUBSET S /\ IsFiniteSet(s) /\ SumFunctionOnSet(v, s) # SumFunctionOnSet(w, s)
    BY Smaller
  <2>3. /\ s = {} => SumFunctionOnSet(v, s) = 0 /\ SumFunctionOnSet(w, s) = 0
        /\ s # {} => /\ Pick(s) \in s
                     /\ SumFunctionOnSet(v, s) = v[Pick(s)] + SumFunctionOnSet(v, s \ {Pick(s)})
                     /\ SumFunctionOnSet(w, s) = w[Pick(s)] + SumFunctionOnSet(w, s \ {Pick(s)})
    BY <2>2, SumRecursion
  <2>4. s # {} /\ Pick(s) \in s
    BY <2>2, <2>3
  <2>5. SumFunctionOnSet(v, s \ {Pick(s)}) = SumFunctionOnSet(w, s \ {Pick(s)})
    BY <2>1, <2>2, <2>4
  <2>6. v[Pick(s)] = w[Pick(s)]
    BY <2>2, <2>4
  <2> QED  BY <2>2, <2>3, <2>4, <2>5, <2>6
<1>2. S \in SUBSET S
  OBVIOUS
<1> QED  BY <1>1, <1>2

(* The sum over two sets that have no element in common. *)
LEMMA SumUnion ==
  ASSUME NEW S, IsFiniteSet(S), NEW T, IsFiniteSet(T), S \cap T = {},
         NEW w, \A x \in S \cup T : w[x] \in Int
  PROVE  SumFunctionOnSet(w, S \cup T) = SumFunctionOnSet(w, S) + SumFunctionOnSet(w, T)
<1> DEFINE Sum(s) == SumFunctionOnSet(w, s)
           B == {s \in SUBSET S : Sum(s \cup T) # Sum(s) + Sum(T)}
<1>0. Sum({}) = 0 /\ Sum(T) \in Int
  BY SumRecursion, SumType, FS_EmptySet
<1>1. ASSUME B # {}
      PROVE  FALSE
  <2>1. PICK s \in B : \A x \in s : s \ {x} \notin B
    BY <1>1, SmallestSet
  <2>2. s \in SUBSET S /\ IsFiniteSet(s) /\ IsFiniteSet(s \cup T)
    BY Smaller, FS_Union
  <2>3. Sum(s \cup T) # Sum(s) + Sum(T)
    BY <2>1
  <2>4. CASE s = {}
    <3>1. s \cup T = T
      BY <2>4
    <3> HIDE DEF Sum
    <3> QED  BY <1>0, <2>3, <2>4, <3>1
  <2>5. CASE s # {}
    <3>1. PICK x \in s : TRUE
      BY <2>5
    <3>2. (s \cup T) \ {x} = (s \ {x}) \cup T /\ x \in s \cup T /\ w[x] \in Int
      BY <2>2, <3>1
    <3>3. Sum(s) = w[x] + Sum(s \ {x})
      BY <2>2, SumRemove
    <3>4. Sum(s \cup T) = w[x] + Sum((s \cup T) \ {x})
      <4>1. \A y \in s \cup T : w[y] \in Int
        BY <2>2
      <4> QED  BY <2>2, <3>2, <4>1, SumRemove
    <3>5. Sum(s \ {x}) \in Int
      <4>1. IsFiniteSet(s \ {x}) /\ \A y \in s \ {x} : w[y] \in Int
        BY <2>2, FS_Subset
      <4> QED  BY <4>1, SumType
    <3> HIDE DEF Sum
    <3>6. Sum((s \ {x}) \cup T) = Sum(s \ {x}) + Sum(T)
      BY <2>1, <2>2, <3>1
    <3>7. Sum(s \cup T) = w[x] + (Sum(s \ {x}) + Sum(T))
      BY <3>2, <3>4, <3>6
    <3>8. Sum(s) + Sum(T) = w[x] + (Sum(s \ {x}) + Sum(T))
      BY <1>0, <3>2, <3>3, <3>5
    <3> QED  BY <2>3, <3>7, <3>8
  <2> QED  BY <2>4, <2>5
<1>2. S \in SUBSET S
  OBVIOUS
<1> QED  BY <1>1, <1>2

(* The sum of equal summands. *)
LEMMA SumConstant ==
  ASSUME NEW S, IsFiniteSet(S), NEW c \in Int, NEW w, \A x \in S : w[x] = c
  PROVE  SumFunctionOnSet(w, S) = Cardinality(S) * c
<1> DEFINE B == {s \in SUBSET S : SumFunctionOnSet(w, s) # Cardinality(s) * c}
<1>1. ASSUME B # {}
      PROVE  FALSE
  <2>1. PICK s \in B : \A x \in s : s \ {x} \notin B
    BY <1>1, SmallestSet
  <2>2. s \in SUBSET S /\ IsFiniteSet(s) /\ SumFunctionOnSet(w, s) # Cardinality(s) * c
    BY Smaller
  <2>3. CASE s = {}
    <3>1. SumFunctionOnSet(w, {}) = 0 /\ Cardinality({}) = 0
      BY SumRecursion, FS_EmptySet
    <3> QED  BY <2>2, <2>3, <3>1
  <2>4. CASE s # {}
    <3>1. PICK x \in s : TRUE
      BY <2>4
    <3>2. SumFunctionOnSet(w, s) = w[x] + SumFunctionOnSet(w, s \ {x}) /\ w[x] = c
      BY <2>2, SumRemove
    <3> DEFINE n == Cardinality(s)
    <3>3. n \in Nat /\ Cardinality(s \ {x}) = n - 1
      BY <2>2, Smaller
    <3>4. SumFunctionOnSet(w, s \ {x}) = Cardinality(s \ {x}) * c
      BY <2>1, <2>2
    <3> HIDE DEF n
    <3>5. c + (n - 1) * c = n * c
      BY <3>3
    <3> QED  BY <2>2, <3>2, <3>3, <3>4, <3>5 DEF n
  <2> QED  BY <2>3, <2>4
<1>2. S \in SUBSET S
  OBVIOUS
<1> QED  BY <1>1, <1>2

(* A sum over the union of sets that are apart is the sum of their sums. *)
LEMMA SumOfSums ==
  ASSUME NEW K, IsFiniteSet(K), NEW f, NEW w, NEW v,
         \A k \in K : IsFiniteSet(f[k]) /\ \A x \in f[k] : w[x] \in Int,
         \A j, k \in K : j # k => f[j] \cap f[k] = {},
         \A k \in K : v[k] = SumFunctionOnSet(w, f[k])
  PROVE  /\ IsFiniteSet(UNION {f[k] : k \in K})
         /\ SumFunctionOnSet(w, UNION {f[k] : k \in K}) = SumFunctionOnSet(v, K)
<1> DEFINE U(s) == UNION {f[k] : k \in s}
           Good(s) == IsFiniteSet(U(s)) /\ SumFunctionOnSet(w, U(s)) = SumFunctionOnSet(v, s)
           B == {s \in SUBSET K : ~Good(s)}
<1>0. \A k \in K : v[k] \in Int
  BY SumType
<1>1. ASSUME B # {}
      PROVE  FALSE
  <2>1. PICK s \in B : \A k \in s : s \ {k} \notin B
    BY <1>1, SmallestSet
  <2>2. s \in SUBSET K /\ IsFiniteSet(s) /\ ~Good(s)
    BY Smaller
  <2>3. CASE s = {}
    <3>1. U(s) = {}
      BY <2>3
    <3>2. SumFunctionOnSet(w, {}) = 0 /\ SumFunctionOnSet(v, {}) = 0 /\ IsFiniteSet({})
      BY SumRecursion, FS_EmptySet
    <3> HIDE DEF U
    <3> QED  BY <2>2, <2>3, <3>1, <3>2
  <2>4. CASE s # {}
    <3>1. PICK k \in s : TRUE
      BY <2>4
    <3>2. U(s) = f[k] \cup U(s \ {k}) /\ f[k] \cap U(s \ {k}) = {}
      BY <2>2
    <3>3. \A x \in f[k] \cup U(s \ {k}) : w[x] \in Int
      BY <2>2
    <3> HIDE DEF U
    <3>4. Good(s \ {k})
      BY <2>1, <2>2
    <3> DEFINE A == f[k]
               C == U(s \ {k})
    <3>a. IsFiniteSet(A) /\ IsFiniteSet(C) /\ A \cap C = {} /\ \A x \in A \cup C : w[x] \in Int
      BY <2>2, <3>1, <3>2, <3>3, <3>4
    <3>b. U(s) = A \cup C
      BY <3>2
    <3> HIDE DEF A, C
    <3>5. IsFiniteSet(U(s))
      <4>1. IsFiniteSet(A \cup C)
        BY <3>a, FS_Union
      <4> QED  BY <3>b, <4>1
    <3>c. SumFunctionOnSet(w, A \cup C) = SumFunctionOnSet(w, A) + SumFunctionOnSet(w, C)
      BY <3>a, SumUnion
    <3>6. SumFunctionOnSet(w, U(s)) = SumFunctionOnSet(w, f[k]) + SumFunctionOnSet(w, U(s \ {k}))
      BY <3>b, <3>c DEF A, C
    <3>7. SumFunctionOnSet(v, s) = v[k] + SumFunctionOnSet(v, s \ {k})
      <4>1. \A j \in s : v[j] \in Int
        BY <1>0, <2>2
      <4> QED  BY <2>2, <4>1, SumRemove
    <3> QED  BY <2>2, <3>4, <3>5, <3>6, <3>7
  <2> QED  BY <2>3, <2>4
<1>2. K \in SUBSET K
  OBVIOUS
<1> QED  BY <1>1, <1>2
=============================================================================

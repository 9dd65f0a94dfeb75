------------------------------ MODULE SumProofs ------------------------------
(***************************************************************************)
(* What a sum over a finite set is, whatever order the fold of Folds.tla   *)
(* takes its elements in.  The pool of the stream contract and the votes   *)
(* of governance are such sums.                                            *)
(*                                                                         *)
(* The induction theorems of the library have an operator as a parameter,  *)
(* which no prover here instantiates.  Induction is therefore done on      *)
(* sets: a set of naturals with 0 and closed under + 1 holds all of them,  *)
(* since its complement would otherwise have a least element (WFMin).      *)
(***************************************************************************)
EXTENDS Integers, Functions, FiniteSetTheorems, WellFoundedInduction, TLAPS

\* A set of naturals that holds 0, and n + 1 whenever it holds n, holds all.
LEMMA NaturalsInSet ==
    ASSUME NEW S, 0 \in S, \A n \in Nat : n \in S => n + 1 \in S
    PROVE  Nat \subseteq S
<1> DEFINE T == Nat \ S
           R == OpToRel(<, Nat)
<1> SUFFICES ASSUME T # {} PROVE FALSE
  OBVIOUS
<1>1. PICK m \in T : \A k \in T : ~(<<k, m>> \in R)
  BY NatLessThanWellFounded, WFMin
<1>2. m - 1 \in Nat /\ m - 1 < m
  OBVIOUS
<1>3. <<m - 1, m>> \in R
  BY <1>2 DEF OpToRel
<1>4. m - 1 \in S
  BY <1>1, <1>2, <1>3
<1> QED
  BY <1>2, <1>4

\* Taking an element out of a set leaves one less.
LEMMA OneLess ==
    ASSUME NEW S, IsFiniteSet(S), NEW n \in Nat, Cardinality(S) = n + 1, NEW x \in S
    PROVE  IsFiniteSet(S \ {x}) /\ Cardinality(S \ {x}) = n
<1>1. IsFiniteSet(S \ {x}) /\ Cardinality(S \ {x}) = Cardinality(S) - 1
  BY FS_RemoveElement
<1> QED
  BY <1>1

\* A family of sets that holds {}, and with a set every set of one element
\* more, holds all finite sets.
LEMMA FiniteSetsInFamily ==
    ASSUME NEW S, IsFiniteSet(S), NEW F, {} \in F,
           \A T \in SUBSET S : \A x \in S \ T : T \in F => T \cup {x} \in F
    PROVE  S \in F
<1> DEFINE N == {n \in Nat : \A T \in SUBSET S : IsFiniteSet(T) /\ Cardinality(T) = n => T \in F}
<1>1. 0 \in N
  BY FS_EmptySet
<1>2. ASSUME NEW n \in Nat, n \in N PROVE n + 1 \in N
  <2> SUFFICES ASSUME NEW T \in SUBSET S, IsFiniteSet(T), Cardinality(T) = n + 1
               PROVE  T \in F
    OBVIOUS
  <2>0. T # {}
    <3>1. Cardinality({}) = 0
      BY FS_EmptySet
    <3> QED BY <3>1
  <2>1. PICK x \in T : TRUE
    BY <2>0
  <2>2. IsFiniteSet(T \ {x}) /\ Cardinality(T \ {x}) = n
    BY OneLess
  <2>3. T \ {x} \in F
    BY <1>2, <2>2
  <2>4. (T \ {x}) \cup {x} = T
    OBVIOUS
  <2> QED
    BY <2>1, <2>3, <2>4
<1>3. Nat \subseteq N
  <2> HIDE DEF N
  <2> QED BY <1>1, <1>2, NaturalsInSet
<1>4. Cardinality(S) \in N
  BY <1>3, FS_CardinalityType
<1> QED
  BY <1>4

-----------------------------------------------------------------------------
(* The fold is well defined.                                               *)

\* What the recursive function of the fold is at s, computed from g.
partial(f, g, s) ==
    IF s = {} THEN 0
    ELSE LET x == CHOOSE y \in s : TRUE IN f[x] + g[s \ {x}]

\* g is such a function on the sets of D.
computes(f, g, D) == g = [s \in D |-> partial(f, g, s)]

\* The finite sets have one.
LEMMA SumComputed ==
    ASSUME NEW f, NEW S, IsFiniteSet(S)
    PROVE  \E g : computes(f, g, SUBSET S)
<1> DEFINE D(n) == {s \in SUBSET S : Cardinality(s) <= n}
           N == {n \in Nat : \E g : computes(f, g, D(n))}
<1>0. \A s \in SUBSET S : IsFiniteSet(s) /\ Cardinality(s) \in Nat /\ Cardinality(s) <= Cardinality(S)
  BY FS_Subset, FS_CardinalityType
<1>1. 0 \in N
  <2> DEFINE g == [s \in D(0) |-> 0]
  <2>1. \A s \in D(0) : s = {}
    BY <1>0, FS_EmptySet
  <2>2. g = [s \in D(0) |-> partial(f, g, s)]
    BY <2>1 DEF partial
  <2>3. computes(f, g, D(0))
    BY <2>2 DEF computes
  <2> HIDE DEF g
  <2> QED BY <2>3
<1>2. ASSUME NEW n \in Nat, n \in N PROVE n + 1 \in N
  <2>1. PICK g : computes(f, g, D(n))
    BY <1>2
  <2> DEFINE h == [s \in D(n + 1) |-> partial(f, g, s)]
  <2>2. ASSUME NEW s \in D(n) PROVE h[s] = g[s]
    <3>1. s \in D(n + 1)
      BY <1>0
    <3> QED BY <2>1, <3>1 DEF computes
  <2>3. ASSUME NEW s \in D(n + 1) PROVE partial(f, g, s) = partial(f, h, s)
    <3>1. CASE s = {}
      BY <3>1 DEF partial
    <3>2. CASE s # {}
      <4> DEFINE x == CHOOSE y \in s : TRUE
      <4>1. x \in s
        BY <3>2
      <4> HIDE DEF x
      <4>2. s \ {x} \in D(n)
        BY <4>1, <1>0, FS_RemoveElement
      <4>3. h[s \ {x}] = g[s \ {x}]
        BY <2>2, <4>2
      <4> HIDE DEF h
      <4> QED BY <3>2, <4>3 DEF partial, x
    <3> QED BY <3>1, <3>2
  <2>4. h = [s \in D(n + 1) |-> partial(f, h, s)]
    <3> DEFINE k == [s \in D(n + 1) |-> partial(f, h, s)]
    <3>1. h = k
      BY <2>3
    <3> QED BY <3>1
  <2>5. computes(f, h, D(n + 1))
    BY <2>4 DEF computes
  <2> HIDE DEF h
  <2> QED BY <2>5
<1>3. Nat \subseteq N
  <2> HIDE DEF N
  <2> QED BY <1>1, <1>2, NaturalsInSet
<1>4. D(Cardinality(S)) = SUBSET S
  BY <1>0
<1>5. Cardinality(S) \in N
  BY <1>3, FS_CardinalityType
<1> QED
  BY <1>4, <1>5

\* So the fold is one.
LEMMA SumIsFold ==
    ASSUME NEW f, NEW S, IsFiniteSet(S)
    PROVE  \E g : computes(f, g, SUBSET S) /\ SumFunctionOnSet(f, S) = g[S]
<1> DEFINE g == CHOOSE h : computes(f, h, SUBSET S)
<1>1. SumFunctionOnSet(f, S) = g[S]
  BY DEF SumFunctionOnSet, FoldFunctionOnSet, MapThenFoldSet, computes, partial
<1>2. computes(f, g, SUBSET S)
  BY SumComputed
<1> QED
  BY <1>1, <1>2

\* Two such functions agree on every finite set both are defined on.
LEMMA ComputedOnce ==
    ASSUME NEW f, NEW T, NEW S \in SUBSET T, NEW g, NEW h, IsFiniteSet(S),
           computes(f, g, SUBSET S), computes(f, h, SUBSET T)
    PROVE  g[S] = h[S]
<1> DEFINE N == {n \in Nat : \A s \in SUBSET S : Cardinality(s) = n => g[s] = h[s]}
<1>0. \A s \in SUBSET S : IsFiniteSet(s) /\ Cardinality(s) \in Nat
  BY FS_Subset, FS_CardinalityType
<1>a. ASSUME NEW s \in SUBSET S PROVE g[s] = partial(f, g, s) /\ h[s] = partial(f, h, s)
  <2>1. s \in SUBSET T
    OBVIOUS
  <2> QED BY <2>1 DEF computes
<1>1. 0 \in N
  <2>1. ASSUME NEW s \in SUBSET S, Cardinality(s) = 0 PROVE s = {}
    BY <2>1, <1>0, FS_EmptySet
  <2>2. g[{}] = 0 /\ h[{}] = 0
    BY <1>a DEF partial
  <2> QED BY <2>1, <2>2
<1>2. ASSUME NEW n \in Nat, n \in N PROVE n + 1 \in N
  <2> SUFFICES ASSUME NEW s \in SUBSET S, Cardinality(s) = n + 1 PROVE g[s] = h[s]
    OBVIOUS
  <2>1. s # {}
    <3>1. Cardinality({}) = 0
      BY FS_EmptySet
    <3> QED BY <3>1
  <2> DEFINE x == CHOOSE y \in s : TRUE
  <2>2. x \in s
    BY <2>1
  <2> HIDE DEF x
  <2>3. s \ {x} \in SUBSET S /\ Cardinality(s \ {x}) = n
    BY <2>2, <1>0, OneLess
  <2>4. g[s \ {x}] = h[s \ {x}]
    BY <2>3, <1>2
  <2> QED
    BY <1>a, <2>1, <2>4 DEF partial, x
<1>3. Nat \subseteq N
  <2> HIDE DEF N
  <2> QED BY <1>1, <1>2, NaturalsInSet
<1>4. Cardinality(S) \in N
  BY <1>3, FS_CardinalityType
<1> QED
  BY <1>4

-----------------------------------------------------------------------------
(* Sums.                                                                   *)

\* Nothing adds up to 0; a set, to one of its elements and the rest.
LEMMA SumEmpty == ASSUME NEW f PROVE SumFunctionOnSet(f, {}) = 0
<1>1. PICK g : computes(f, g, SUBSET {}) /\ SumFunctionOnSet(f, {}) = g[{}]
  BY SumIsFold, FS_EmptySet
<1> QED
  BY <1>1 DEF computes, partial

LEMMA SumChosen ==
    ASSUME NEW f, NEW S, IsFiniteSet(S), S # {}
    PROVE  LET x == CHOOSE y \in S : TRUE
           IN  x \in S /\ SumFunctionOnSet(f, S) = f[x] + SumFunctionOnSet(f, S \ {x})
<1> DEFINE x == CHOOSE y \in S : TRUE
<1>1. x \in S
  OBVIOUS
<1>2. PICK g : computes(f, g, SUBSET S) /\ SumFunctionOnSet(f, S) = g[S]
  BY SumIsFold
<1>3. IsFiniteSet(S \ {x})
  BY FS_Subset
<1>4. PICK h : computes(f, h, SUBSET (S \ {x})) /\ SumFunctionOnSet(f, S \ {x}) = h[S \ {x}]
  BY <1>3, SumIsFold
<1>5. h[S \ {x}] = g[S \ {x}]
  <2> DEFINE R == S \ {x}
  <2>1. R \in SUBSET S /\ IsFiniteSet(R) /\ computes(f, h, SUBSET R) /\ computes(f, g, SUBSET S)
    BY <1>2, <1>3, <1>4
  <2> HIDE DEF R
  <2>2. h[R] = g[R]
    <3>1. IsFiniteSet(R)
      BY <2>1
    <3>2. computes(f, h, SUBSET R)
      BY <2>1
    <3>3. computes(f, g, SUBSET S)
      BY <2>1
    <3>4. R \in SUBSET S
      BY <2>1
    <3> QED BY ONLY <3>1, <3>2, <3>3, <3>4, ComputedOnce
  <2> QED BY <2>2 DEF R
<1>6. g[S] = f[x] + g[S \ {x}]
  BY <1>2 DEF computes, partial
<1> QED
  BY <1>1, <1>2, <1>4, <1>5, <1>6

\* Sums of integers are integers.
LEMMA SumIsInt ==
    ASSUME NEW f, NEW S, IsFiniteSet(S), \A x \in S : f[x] \in Int
    PROVE  SumFunctionOnSet(f, S) \in Int
<1> DEFINE N == {n \in Nat : \A T \in SUBSET S : Cardinality(T) = n => SumFunctionOnSet(f, T) \in Int}
<1>0. \A T \in SUBSET S : IsFiniteSet(T) /\ Cardinality(T) \in Nat
  BY FS_Subset, FS_CardinalityType
<1>1. 0 \in N
  <2> SUFFICES ASSUME NEW T \in SUBSET S, Cardinality(T) = 0 PROVE SumFunctionOnSet(f, T) \in Int
    OBVIOUS
  <2>1. T = {}
    BY <1>0, FS_EmptySet
  <2> QED BY <2>1, SumEmpty
<1>2. ASSUME NEW n \in Nat, n \in N PROVE n + 1 \in N
  <2> SUFFICES ASSUME NEW T \in SUBSET S, Cardinality(T) = n + 1 PROVE SumFunctionOnSet(f, T) \in Int
    OBVIOUS
  <2>1. T # {}
    <3>1. Cardinality({}) = 0
      BY FS_EmptySet
    <3> QED BY <3>1
  <2>2. PICK x \in T : SumFunctionOnSet(f, T) = f[x] + SumFunctionOnSet(f, T \ {x})
    BY <1>0, <2>1, SumChosen
  <2>3. T \ {x} \in SUBSET S /\ Cardinality(T \ {x}) = n
    BY <1>0, OneLess
  <2>4. SumFunctionOnSet(f, T \ {x}) \in Int /\ f[x] \in Int
    BY <1>2, <2>3
  <2> QED BY <2>2, <2>4
<1>3. Nat \subseteq N
  <2> HIDE DEF N
  <2> QED BY <1>1, <1>2, NaturalsInSet
<1>4. Cardinality(S) \in N
  BY <1>3, FS_CardinalityType
<1> QED
  BY <1>4

\* Any element may be taken out of a sum, not only the one CHOOSE takes.
LEMMA SumWithout ==
    ASSUME NEW f, NEW S, IsFiniteSet(S), \A x \in S : f[x] \in Int, NEW y \in S
    PROVE  SumFunctionOnSet(f, S) = f[y] + SumFunctionOnSet(f, S \ {y})
<1> DEFINE Sum(T) == SumFunctionOnSet(f, T)
           N == {n \in Nat : \A T \in SUBSET S : Cardinality(T) = n =>
                                 \A z \in T : Sum(T) = f[z] + Sum(T \ {z})}
<1>0. \A T \in SUBSET S : IsFiniteSet(T) /\ Cardinality(T) \in Nat
  BY FS_Subset, FS_CardinalityType
<1>1. 0 \in N
  <2> SUFFICES ASSUME NEW T \in SUBSET S, Cardinality(T) = 0 PROVE T = {}
    OBVIOUS
  <2> QED BY <1>0, FS_EmptySet
<1>2. ASSUME NEW n \in Nat, n \in N PROVE n + 1 \in N
  <2> SUFFICES ASSUME NEW T \in SUBSET S, Cardinality(T) = n + 1, NEW z \in T
               PROVE  Sum(T) = f[z] + Sum(T \ {z})
    OBVIOUS
  <2>1. PICK x \in T : Sum(T) = f[x] + Sum(T \ {x})
    BY <1>0, SumChosen
  <2>2. CASE x = z
    BY <2>1, <2>2
  <2>3. CASE x # z
    <3> DEFINE R == (T \ {x}) \ {z}
    <3>1. T \ {x} \in SUBSET S /\ Cardinality(T \ {x}) = n /\ z \in T \ {x}
      BY <1>0, <2>3, OneLess
    <3>2. T \ {z} \in SUBSET S /\ Cardinality(T \ {z}) = n /\ x \in T \ {z}
      BY <1>0, <2>3, OneLess
    <3>3. R = (T \ {z}) \ {x} /\ R \in SUBSET S
      OBVIOUS
    <3>4. Sum(T \ {x}) = f[z] + Sum(R)
      BY <1>2, <3>1
    <3>5. Sum(T \ {z}) = f[x] + Sum(R)
      BY <1>2, <3>2, <3>3
    <3>6. Sum(R) \in Int /\ f[x] \in Int /\ f[z] \in Int
      BY <1>0, <3>3, SumIsInt
    <3> HIDE DEF Sum, R
    <3> QED BY <2>1, <3>4, <3>5, <3>6
  <2> QED BY <2>2, <2>3
<1>3. Nat \subseteq N
  <2> HIDE DEF N
  <2> QED BY <1>1, <1>2, NaturalsInSet
<1>4. Cardinality(S) \in N
  BY <1>3, FS_CardinalityType
<1> QED
  BY <1>4

\* The same, adding an element.
LEMMA SumWith ==
    ASSUME NEW f, NEW S, IsFiniteSet(S), NEW y, y \notin S, \A x \in S \cup {y} : f[x] \in Int
    PROVE  SumFunctionOnSet(f, S \cup {y}) = SumFunctionOnSet(f, S) + f[y]
<1> DEFINE T == S \cup {y}
<1>1. IsFiniteSet(T) /\ T \ {y} = S /\ y \in T /\ \A x \in T : f[x] \in Int
  BY FS_AddElement
<1> HIDE DEF T
<1>2. SumFunctionOnSet(f, T) = f[y] + SumFunctionOnSet(f, S)
  BY <1>1, SumWithout
<1>3. SumFunctionOnSet(f, S) \in Int /\ f[y] \in Int
  BY SumIsInt
<1> QED
  BY <1>2, <1>3 DEF T

-----------------------------------------------------------------------------
(* Comparing sums.                                                         *)

\* A sum depends on the values summed only.
LEMMA SumAgrees ==
    ASSUME NEW f, NEW g, NEW S, IsFiniteSet(S), \A x \in S : f[x] \in Int /\ g[x] = f[x]
    PROVE  SumFunctionOnSet(f, S) = SumFunctionOnSet(g, S)
<1> DEFINE F == {T \in SUBSET S : SumFunctionOnSet(f, T) = SumFunctionOnSet(g, T)}
<1>1. {} \in F
  BY SumEmpty
<1>2. ASSUME NEW T \in SUBSET S, NEW x \in S \ T, T \in F PROVE T \cup {x} \in F
  <2>1. IsFiniteSet(T) /\ x \notin T /\ \A z \in T \cup {x} : f[z] \in Int /\ g[z] \in Int
    BY FS_Subset
  <2>2. SumFunctionOnSet(f, T \cup {x}) = SumFunctionOnSet(f, T) + f[x]
    BY <2>1, SumWith
  <2>3. SumFunctionOnSet(g, T \cup {x}) = SumFunctionOnSet(g, T) + g[x]
    BY <2>1, SumWith
  <2> QED BY <1>2, <2>2, <2>3
<1>3. S \in F
  <2> HIDE DEF F
  <2> QED BY <1>1, <1>2, FiniteSetsInFamily
<1> QED
  BY <1>3

\* What adds up term by term adds up as a whole.
LEMMA SumOfSums ==
    ASSUME NEW f, NEW g, NEW h, NEW S, IsFiniteSet(S),
           \A x \in S : f[x] \in Int /\ g[x] \in Int /\ h[x] = f[x] + g[x]
    PROVE  SumFunctionOnSet(h, S) = SumFunctionOnSet(f, S) + SumFunctionOnSet(g, S)
<1> DEFINE F == {T \in SUBSET S :
                    SumFunctionOnSet(h, T) = SumFunctionOnSet(f, T) + SumFunctionOnSet(g, T)}
<1>1. {} \in F
  BY SumEmpty
<1>2. ASSUME NEW T \in SUBSET S, NEW x \in S \ T, T \in F PROVE T \cup {x} \in F
  <2>1. IsFiniteSet(T) /\ x \notin T
        /\ \A z \in T \cup {x} : f[z] \in Int /\ g[z] \in Int /\ h[z] \in Int
    BY FS_Subset
  <2>2. SumFunctionOnSet(f, T \cup {x}) = SumFunctionOnSet(f, T) + f[x]
    BY <2>1, SumWith
  <2>3. SumFunctionOnSet(g, T \cup {x}) = SumFunctionOnSet(g, T) + g[x]
    BY <2>1, SumWith
  <2>4. SumFunctionOnSet(h, T \cup {x}) = SumFunctionOnSet(h, T) + h[x]
    BY <2>1, SumWith
  <2>5. SumFunctionOnSet(f, T) \in Int /\ SumFunctionOnSet(g, T) \in Int
    BY <2>1, SumIsInt
  <2>6. SumFunctionOnSet(h, T) = SumFunctionOnSet(f, T) + SumFunctionOnSet(g, T)
    BY <1>2
  <2>7. f[x] \in Int /\ g[x] \in Int /\ h[x] = f[x] + g[x]
    OBVIOUS
  <2> QED BY ONLY <2>2, <2>3, <2>4, <2>5, <2>6, <2>7, T \cup {x} \in SUBSET S
<1>3. S \in F
  <2> HIDE DEF F
  <2> QED BY <1>1, <1>2, FiniteSetsInFamily
<1> QED
  BY <1>3

\* Terms of 0 may be left out.
LEMMA SumOverSubset ==
    ASSUME NEW f, NEW S, IsFiniteSet(S), NEW R \in SUBSET S,
           \A x \in R : f[x] \in Int, \A x \in S \ R : f[x] = 0
    PROVE  SumFunctionOnSet(f, S) = SumFunctionOnSet(f, R)
<1> DEFINE D == S \ R
           F == {T \in SUBSET D : SumFunctionOnSet(f, R \cup T) = SumFunctionOnSet(f, R)}
<1>0. IsFiniteSet(D) /\ IsFiniteSet(R)
  BY FS_Subset
<1>1. {} \in F
  OBVIOUS
<1>2. ASSUME NEW T \in SUBSET D, NEW x \in D \ T, T \in F PROVE T \cup {x} \in F
  <2> DEFINE Q == R \cup T
  <2>1. IsFiniteSet(Q) /\ x \notin Q /\ \A z \in Q \cup {x} : f[z] \in Int
    BY FS_Subset
  <2>2. SumFunctionOnSet(f, Q \cup {x}) = SumFunctionOnSet(f, Q) + f[x]
    <3> HIDE DEF Q
    <3> QED BY <2>1, SumWith
  <2>3. SumFunctionOnSet(f, Q) \in Int
    <3> HIDE DEF Q
    <3> QED BY <2>1, SumIsInt
  <2>4. R \cup (T \cup {x}) = Q \cup {x} /\ f[x] = 0
    OBVIOUS
  <2>5. SumFunctionOnSet(f, R \cup (T \cup {x})) = SumFunctionOnSet(f, Q)
    BY ONLY <2>2, <2>3, <2>4
  <2> QED BY <1>2, <2>5
<1>3. D \in F
  <2> HIDE DEF F
  <2> QED BY <1>0, <1>1, <1>2, FiniteSetsInFamily
<1>4. R \cup D = S
  OBVIOUS
<1> QED
  BY <1>3, <1>4

\* A sum of one term that counts.
LEMMA SumOfOne ==
    ASSUME NEW f, NEW S, IsFiniteSet(S), NEW y, f[y] \in Int, \A x \in S \ {y} : f[x] = 0
    PROVE  SumFunctionOnSet(f, S) = IF y \in S THEN f[y] ELSE 0
<1>1. CASE y \in S
  <2>1. SumFunctionOnSet(f, S) = SumFunctionOnSet(f, {y})
    BY <1>1, SumOverSubset
  <2>2. SumFunctionOnSet(f, {} \cup {y}) = SumFunctionOnSet(f, {}) + f[y]
    BY SumWith, FS_EmptySet
  <2>3. {} \cup {y} = {y}
    OBVIOUS
  <2>4. SumFunctionOnSet(f, {y}) = 0 + f[y]
    BY <2>2, <2>3, SumEmpty
  <2> QED BY <1>1, <2>1, <2>4
<1>2. CASE y \notin S
  <2>1. SumFunctionOnSet(f, S) = SumFunctionOnSet(f, {})
    BY <1>2, SumOverSubset
  <2> QED BY <1>2, <2>1, SumEmpty
<1> QED
  BY <1>1, <1>2

\* A sum of nothing that counts.
LEMMA SumOfNone ==
    ASSUME NEW f, NEW S, IsFiniteSet(S), \A x \in S : f[x] = 0
    PROVE  SumFunctionOnSet(f, S) = 0
<1>1. SumFunctionOnSet(f, S) = SumFunctionOnSet(f, {})
  BY SumOverSubset
<1> QED
  BY <1>1, SumEmpty
=============================================================================

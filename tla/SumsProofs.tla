----------------------------- MODULE SumsProofs -----------------------------
(***************************************************************************)
(* What a sum over a finite set is, and how it changes.  The induction     *)
(* theorems of the library take an operator as a parameter; here they are  *)
(* stated for the SET of the things that have the property instead, and    *)
(* follow from the theorem that strict inclusion of finite sets is well    *)
(* founded.                                                                *)
(***************************************************************************)
EXTENDS Sums, FiniteSetTheorems, WellFoundedInduction, TLAPS

(* Among some subsets of a finite set there is a smallest one.              *)
LEMMA SmallestSubset ==
    ASSUME NEW S, IsFiniteSet(S), NEW T \in SUBSET (SUBSET S), T # {}
    PROVE  \E A \in T : \A B \in T : B \subseteq A => B = A
<1>1. IsWellFoundedOn(StrictSubsetOrdering(S), SUBSET S)
  BY FS_StrictSubsetOrderingWellFounded, FS_FiniteSubsetsOfFinite
<1>2. PICK A \in T : \A B \in T : ~(<<B, A>> \in StrictSubsetOrdering(S))
  BY <1>1, WFMin
<1>3. ASSUME NEW B \in T, B \subseteq A
      PROVE  B = A
  BY <1>2, <1>3 DEF StrictSubsetOrdering
<1> QED
  BY <1>2, <1>3

(* What holds of the empty set, and of a set with one element more whenever *)
(* it holds of the set, holds of every subset of a finite set.              *)
LEMMA SubsetInduction ==
    ASSUME NEW S, IsFiniteSet(S), NEW T,
           {} \in T,
           \A A \in SUBSET S, x \in S : A \in T /\ x \notin A => A \cup {x} \in T
    PROVE  \A A \in SUBSET S : A \in T
<1> DEFINE Bad == {A \in SUBSET S : A \notin T}
<1> SUFFICES ASSUME Bad # {} PROVE FALSE
  OBVIOUS
<1>1. PICK A \in Bad : \A B \in Bad : B \subseteq A => B = A
  <2>1. Bad \in SUBSET (SUBSET S)
    OBVIOUS
  <2> HIDE DEF Bad
  <2> QED
    BY <2>1, SmallestSubset
<1>2. PICK x \in A : TRUE
  BY <1>1
<1>3. A \ {x} \in SUBSET S /\ x \in S /\ A \ {x} # A /\ A = (A \ {x}) \cup {x}
  BY <1>1, <1>2
<1>4. A \ {x} \in T
  BY <1>1, <1>3
<1> QED
  BY <1>1, <1>3, <1>4

LEMMA NaturalInduction ==
    ASSUME NEW T, 0 \in T, \A n \in Nat : n \in T => n + 1 \in T
    PROVE  \A n \in Nat : n \in T
<1> DEFINE Bad == {n \in Nat : n \notin T}
<1> SUFFICES ASSUME Bad # {} PROVE FALSE
  OBVIOUS
<1>1. IsWellFoundedOn({p \in Nat \X Nat : p[1] < p[2]}, Nat)
  BY NatLessThanWellFounded DEF OpToRel
<1>2. PICK n \in Bad : \A m \in Bad : ~(<<m, n>> \in {p \in Nat \X Nat : p[1] < p[2]})
  <2>1. Bad \subseteq Nat
    OBVIOUS
  <2> HIDE DEF Bad
  <2> QED
    BY <1>1, <2>1, WFMin
<1>3. n # 0 /\ n - 1 \in Nat
  OBVIOUS
<1>4. n - 1 \notin Bad
  <2> SUFFICES ASSUME n - 1 \in Bad PROVE FALSE
    OBVIOUS
  <2>1. <<n - 1, n>> \in {p \in Nat \X Nat : p[1] < p[2]}
    BY <1>3
  <2> QED
    BY <1>2, <2>1
<1>5. n - 1 \in T /\ (n - 1) + 1 = n
  BY <1>3, <1>4
<1> QED
  BY <1>3, <1>5

-----------------------------------------------------------------------------
(* The recursive function that Total applies, and its equation.             *)
First(s) == CHOOSE x \in s : TRUE

Unfolded(f, g, s) == IF s = {} THEN 0 ELSE f[First(s)] + g[s \ {First(s)}]

SumOver(f, S) == CHOOSE g : g = [s \in SUBSET S |-> Unfolded(f, g, s)]

LEMMA TotalIsSumOver ==
    \A f, S : Total(f, S) = SumOver(f, S)[S]
  BY DEF Total, MapThenSumSet, MapThenFoldSet, SumOver, Unfolded, First

LEMMA FirstInSet == \A s : s # {} => First(s) \in s
  BY DEF First

LEMMA SumOverExists ==
    ASSUME NEW f, NEW S, IsFiniteSet(S)
    PROVE  \E g : g = [s \in SUBSET S |-> Unfolded(f, g, s)]
<1> DEFINE Upto(n) == {s \in SUBSET S : Cardinality(s) <= n}
           Defined(n) == \E g : g = [s \in Upto(n) |-> Unfolded(f, g, s)]
           Good == {n \in Nat : Defined(n)}
<1>0. \A s \in SUBSET S : IsFiniteSet(s) /\ Cardinality(s) \in Nat /\ Cardinality(s) <= Cardinality(S)
  BY FS_Subset, FS_CardinalityType
<1>1. Defined(0)
  <2> DEFINE g == [s \in Upto(0) |-> 0]
  <2>1. \A s \in Upto(0) : s = {}
    BY <1>0, FS_EmptySet
  <2>2. g = [s \in Upto(0) |-> Unfolded(f, g, s)]
    BY <2>1 DEF Unfolded
  <2> QED
    BY <2>2
<1>2. ASSUME NEW n \in Nat, Defined(n)
      PROVE  Defined(n + 1)
  <2>1. PICK g : g = [s \in Upto(n) |-> Unfolded(f, g, s)]
    BY <1>2
  <2> DEFINE h == [s \in Upto(n + 1) |-> Unfolded(f, g, s)]
  <2>2. ASSUME NEW s \in Upto(n + 1), s # {}
        PROVE  s \ {First(s)} \in Upto(n) /\ s \ {First(s)} \in Upto(n + 1)
    <3>1. First(s) \in s /\ IsFiniteSet(s)
      BY <1>0, <2>2, FirstInSet
    <3>2. Cardinality(s \ {First(s)}) = Cardinality(s) - 1
      BY <3>1, FS_RemoveElement
    <3> QED
      BY <1>0, <2>2, <3>2
  <2>3. \A t \in Upto(n) : t \in Upto(n + 1) /\ g[t] = Unfolded(f, g, t) /\ h[t] = Unfolded(f, g, t)
    BY <1>0, <2>1
  <2>4. \A s \in Upto(n + 1) : Unfolded(f, g, s) = Unfolded(f, h, s)
    BY <2>2, <2>3 DEF Unfolded
  <2>5. h = [s \in Upto(n + 1) |-> Unfolded(f, h, s)]
    BY <2>4
  <2> HIDE DEF h
  <2> QED
    BY <2>5
<1>3. Defined(Cardinality(S))
  <2> HIDE DEF Defined
  <2>1. 0 \in Good /\ \A n \in Nat : n \in Good => n + 1 \in Good
    BY <1>1, <1>2
  <2>2. \A n \in Nat : n \in Good
    <3> HIDE DEF Good
    <3> QED
      BY <2>1, NaturalInduction
  <2> QED
    BY <2>2, FS_CardinalityType
<1>4. Upto(Cardinality(S)) = SUBSET S
  BY <1>0
<1> QED
  BY <1>3, <1>4

LEMMA SumOverEquation ==
    ASSUME NEW f, NEW S, IsFiniteSet(S), NEW s \in SUBSET S
    PROVE  SumOver(f, S)[s] = Unfolded(f, SumOver(f, S), s)
<1>1. SumOver(f, S) = [t \in SUBSET S |-> Unfolded(f, SumOver(f, S), t)]
  BY SumOverExists DEF SumOver
<1> QED
  BY <1>1

(* Two functions that agree on a set have the same sum over it, whichever   *)
(* larger set the sum is computed in.                                       *)
LEMMA SumOverAgrees ==
    ASSUME NEW f, NEW g, NEW S, IsFiniteSet(S), NEW R \in SUBSET S,
           \A x \in R : f[x] = g[x]
    PROVE  SumOver(f, R)[R] = SumOver(g, S)[R]
<1> DEFINE Bad == {s \in SUBSET R : SumOver(f, R)[s] # SumOver(g, S)[s]}
<1> SUFFICES ASSUME Bad # {} PROVE FALSE
  OBVIOUS
<1>0. IsFiniteSet(R)
  BY FS_Subset
<1>1. PICK s \in Bad : \A t \in Bad : t \subseteq s => t = s
  <2>1. Bad \in SUBSET (SUBSET R)
    OBVIOUS
  <2> HIDE DEF Bad
  <2> QED
    BY <1>0, <2>1, SmallestSubset
<1>2. /\ SumOver(f, R)[s] = Unfolded(f, SumOver(f, R), s)
      /\ SumOver(g, S)[s] = Unfolded(g, SumOver(g, S), s)
  BY <1>0, <1>1, SumOverEquation
<1>3. CASE s = {}
  BY <1>1, <1>2, <1>3 DEF Unfolded
<1>4. CASE s # {}
  <2>1. First(s) \in s
    BY <1>4, FirstInSet
  <2>2. f[First(s)] = g[First(s)]
    BY <1>1, <2>1
  <2>3. s \ {First(s)} \notin Bad
    BY <1>1, <2>1
  <2>4. SumOver(f, R)[s \ {First(s)}] = SumOver(g, S)[s \ {First(s)}]
    BY <1>1, <2>3
  <2> QED
    BY <1>1, <1>2, <1>4, <2>2, <2>4 DEF Unfolded
<1> QED
  BY <1>3, <1>4

-----------------------------------------------------------------------------
(* What the proofs of the other modules use: a sum is empty, or a term and  *)
(* the sum of the others, and depends on the terms only.                    *)
LEMMA TotalEmpty ==
    ASSUME NEW f
    PROVE  Total(f, {}) = 0
<1>1. IsFiniteSet({})
  BY FS_EmptySet
<1> QED
  BY <1>1, TotalIsSumOver, SumOverEquation DEF Unfolded

LEMMA TotalFirst ==
    ASSUME NEW f, NEW S, IsFiniteSet(S), S # {}
    PROVE  Total(f, S) = f[First(S)] + Total(f, S \ {First(S)})
<1> DEFINE R == S \ {First(S)}
<1>1. R \in SUBSET S /\ IsFiniteSet(R)
  BY FS_Subset
<1>2. SumOver(f, S)[S] = f[First(S)] + SumOver(f, S)[R]
  BY SumOverEquation DEF Unfolded
<1>3. SumOver(f, R)[R] = SumOver(f, S)[R]
  <2> HIDE DEF R
  <2> QED
    BY <1>1, SumOverAgrees
<1> QED
  BY <1>2, <1>3, TotalIsSumOver

LEMMA TotalSame ==
    ASSUME NEW f, NEW g, NEW S, IsFiniteSet(S), \A x \in S : f[x] = g[x]
    PROVE  Total(f, S) = Total(g, S)
<1>1. SumOver(f, S)[S] = SumOver(g, S)[S]
  BY SumOverAgrees
<1> QED
  BY <1>1, TotalIsSumOver

LEMMA TotalType ==
    ASSUME NEW f, NEW S, IsFiniteSet(S), \A x \in S : f[x] \in Int
    PROVE  Total(f, S) \in Int
<1> DEFINE Bad == {A \in SUBSET S : Total(f, A) \notin Int}
<1> SUFFICES ASSUME Bad # {} PROVE FALSE
  OBVIOUS
<1>1. PICK A \in Bad : \A B \in Bad : B \subseteq A => B = A
  <2>1. Bad \in SUBSET (SUBSET S)
    OBVIOUS
  <2> HIDE DEF Bad
  <2> QED
    BY <2>1, SmallestSubset
<1>2. A # {} /\ IsFiniteSet(A)
  <2>1. Total(f, {}) \in Int
    BY TotalEmpty
  <2> QED
    BY <1>1, <2>1, FS_Subset
<1>3. First(A) \in A /\ A \ {First(A)} \notin Bad
  BY <1>1, <1>2, FirstInSet
<1>4. Total(f, A \ {First(A)}) \in Int /\ f[First(A)] \in Int
  BY <1>1, <1>3
<1> QED
  BY <1>1, <1>2, <1>4, TotalFirst

(* The order of the summands does not matter: any of them may come first.   *)
LEMMA TotalSplit ==
    ASSUME NEW f, NEW S, IsFiniteSet(S), \A x \in S : f[x] \in Int, NEW y \in S
    PROVE  Total(f, S) = f[y] + Total(f, S \ {y})
<1> DEFINE Splits(A) == \A z \in A : Total(f, A) = f[z] + Total(f, A \ {z})
           Bad == {A \in SUBSET S : ~Splits(A)}
<1> SUFFICES ASSUME Bad # {} PROVE FALSE
  OBVIOUS
<1>1. PICK A \in Bad : \A B \in Bad : B \subseteq A => B = A
  <2>1. Bad \in SUBSET (SUBSET S)
    OBVIOUS
  <2> HIDE DEF Bad
  <2> QED
    BY <2>1, SmallestSubset
<1>2. PICK z \in A : Total(f, A) # f[z] + Total(f, A \ {z})
  BY <1>1
<1> DEFINE x == First(A)
<1>3. /\ x \in A /\ z \in A /\ IsFiniteSet(A) /\ f[x] \in Int /\ f[z] \in Int
      /\ Total(f, A) = f[x] + Total(f, A \ {x})
  BY <1>1, <1>2, FirstInSet, TotalFirst, FS_Subset
<1> HIDE DEF x
<1>4. x # z
  BY <1>2, <1>3
<1>5. Splits(A \ {x}) /\ Splits(A \ {z})
  BY <1>1, <1>3
<1>6. /\ Total(f, A \ {x}) = f[z] + Total(f, (A \ {x}) \ {z})
      /\ Total(f, A \ {z}) = f[x] + Total(f, (A \ {z}) \ {x})
  BY <1>3, <1>4, <1>5
<1>7. Total(f, (A \ {x}) \ {z}) = Total(f, (A \ {z}) \ {x})
  <2>1. (A \ {x}) \ {z} = (A \ {z}) \ {x}
    OBVIOUS
  <2> QED
    BY <2>1, Zenon
<1>8. Total(f, (A \ {z}) \ {x}) \in Int
  <2>1. IsFiniteSet((A \ {z}) \ {x}) /\ \A w \in (A \ {z}) \ {x} : f[w] \in Int
    BY <1>1, FS_Subset
  <2> QED
    BY <2>1, TotalType
<1> QED
  BY <1>2, <1>3, <1>6, <1>7, <1>8

LEMMA TotalAdd ==
    ASSUME NEW f, NEW S, IsFiniteSet(S), NEW y, y \notin S,
           \A x \in S \cup {y} : f[x] \in Int
    PROVE  Total(f, S \cup {y}) = Total(f, S) + f[y]
<1>1. IsFiniteSet(S \cup {y}) /\ (S \cup {y}) \ {y} = S
  BY FS_AddElement
<1>2. Total(f, S \cup {y}) = f[y] + Total(f, S)
  BY <1>1, TotalSplit
<1> QED
  BY <1>2, TotalType

-----------------------------------------------------------------------------
(* What is true of every term, by induction over the subsets.               *)
LEMMA TotalSum ==
    ASSUME NEW f, NEW g, NEW h, NEW S, IsFiniteSet(S),
           \A x \in S : f[x] \in Int /\ g[x] \in Int /\ h[x] = f[x] + g[x]
    PROVE  Total(h, S) = Total(f, S) + Total(g, S)
<1> DEFINE T == {A \in SUBSET S : Total(h, A) = Total(f, A) + Total(g, A)}
<1>1. {} \in T
  BY TotalEmpty
<1>2. ASSUME NEW A \in SUBSET S, NEW x \in S, A \in T, x \notin A
      PROVE  A \cup {x} \in T
  <2>1. /\ IsFiniteSet(A)
        /\ \A y \in A \cup {x} : f[y] \in Int /\ g[y] \in Int /\ h[y] = f[y] + g[y]
    BY <1>2, FS_Subset
  <2>2. \A y \in A \cup {x} : h[y] \in Int
    BY <2>1
  <2>3. /\ Total(f, A \cup {x}) = Total(f, A) + f[x]
        /\ Total(g, A \cup {x}) = Total(g, A) + g[x]
        /\ Total(h, A \cup {x}) = Total(h, A) + h[x]
    BY <1>2, <2>1, <2>2, TotalAdd
  <2>4. Total(f, A) \in Int /\ Total(g, A) \in Int
    BY <2>1, TotalType
  <2> QED
    BY <1>2, <2>1, <2>3, <2>4
<1> HIDE DEF T
<1>3. S \in T
  BY <1>1, <1>2, SubsetInduction
<1> QED
  BY <1>3 DEF T

LEMMA TotalMonotonic ==
    ASSUME NEW f, NEW g, NEW S, IsFiniteSet(S),
           \A x \in S : f[x] \in Int /\ g[x] \in Int /\ f[x] <= g[x]
    PROVE  Total(f, S) <= Total(g, S)
<1> DEFINE T == {A \in SUBSET S : Total(f, A) <= Total(g, A)}
<1>1. {} \in T
  BY TotalEmpty
<1>2. ASSUME NEW A \in SUBSET S, NEW x \in S, A \in T, x \notin A
      PROVE  A \cup {x} \in T
  <2>1. IsFiniteSet(A) /\ \A y \in A \cup {x} : f[y] \in Int /\ g[y] \in Int /\ f[y] <= g[y]
    BY <1>2, FS_Subset
  <2>2. /\ Total(f, A \cup {x}) = Total(f, A) + f[x]
        /\ Total(g, A \cup {x}) = Total(g, A) + g[x]
    BY <1>2, <2>1, TotalAdd
  <2>3. Total(f, A) \in Int /\ Total(g, A) \in Int
    BY <2>1, TotalType
  <2> QED
    BY <1>2, <2>1, <2>2, <2>3
<1> HIDE DEF T
<1>3. S \in T
  BY <1>1, <1>2, SubsetInduction
<1> QED
  BY <1>3 DEF T

LEMMA TotalZero ==
    ASSUME NEW f, NEW S, IsFiniteSet(S), \A x \in S : f[x] = 0
    PROVE  Total(f, S) = 0
<1> DEFINE T == {A \in SUBSET S : Total(f, A) = 0}
<1>1. {} \in T
  BY TotalEmpty
<1>2. ASSUME NEW A \in SUBSET S, NEW x \in S, A \in T, x \notin A
      PROVE  A \cup {x} \in T
  <2>1. IsFiniteSet(A) /\ \A y \in A \cup {x} : f[y] \in Int
    BY <1>2, FS_Subset
  <2>2. Total(f, A \cup {x}) = Total(f, A) + f[x]
    BY <1>2, <2>1, TotalAdd
  <2> QED
    BY <1>2, <2>2
<1> HIDE DEF T
<1>3. S \in T
  BY <1>1, <1>2, SubsetInduction
<1> QED
  BY <1>3 DEF T

LEMMA TotalUnion ==
    ASSUME NEW f, NEW R, NEW S, IsFiniteSet(R), IsFiniteSet(S), R \cap S = {},
           \A x \in R \cup S : f[x] \in Int
    PROVE  Total(f, R \cup S) = Total(f, R) + Total(f, S)
<1> DEFINE T == {A \in SUBSET S : Total(f, R \cup A) = Total(f, R) + Total(f, A)}
<1>0. Total(f, R) \in Int
  BY TotalType
<1>1. {} \in T
  BY <1>0, TotalEmpty
<1>2. ASSUME NEW A \in SUBSET S, NEW x \in S, A \in T, x \notin A
      PROVE  A \cup {x} \in T
  <2>1. /\ IsFiniteSet(A) /\ IsFiniteSet(R \cup A)
        /\ x \notin R \cup A
        /\ \A y \in (R \cup A) \cup {x} : f[y] \in Int
    BY <1>2, FS_Subset, FS_Union
  <2>2. /\ Total(f, (R \cup A) \cup {x}) = Total(f, R \cup A) + f[x]
        /\ Total(f, A \cup {x}) = Total(f, A) + f[x]
    BY <1>2, <2>1, TotalAdd
  <2>3. Total(f, A) \in Int
    BY <2>1, TotalType
  <2>4. Total(f, R \cup (A \cup {x})) = Total(f, (R \cup A) \cup {x})
    <3>1. R \cup (A \cup {x}) = (R \cup A) \cup {x}
      OBVIOUS
    <3> QED
      BY <3>1, Zenon
  <2> QED
    BY <1>0, <1>2, <2>1, <2>2, <2>3, <2>4
<1> HIDE DEF T
<1>3. S \in T
  BY <1>1, <1>2, SubsetInduction
<1> QED
  BY <1>3 DEF T

LEMMA TotalNat ==
    ASSUME NEW f, NEW S, IsFiniteSet(S), \A x \in S : f[x] \in Nat
    PROVE  Total(f, S) \in Nat
<1> DEFINE zero == [x \in S |-> 0]
<1>1. Total(zero, S) = 0
  BY TotalZero
<1>2. Total(zero, S) <= Total(f, S)
  BY TotalMonotonic
<1>3. Total(f, S) \in Int
  BY TotalType
<1> QED
  BY <1>1, <1>2, <1>3

(* A part of the terms sums to no more than all, if none is negative.       *)
LEMMA TotalPart ==
    ASSUME NEW f, NEW S, IsFiniteSet(S), \A x \in S : f[x] \in Nat, NEW R \in SUBSET S
    PROVE  Total(f, R) <= Total(f, S)
<1>1. /\ IsFiniteSet(R) /\ IsFiniteSet(S \ R) /\ R \cap (S \ R) = {} /\ R \cup (S \ R) = S
      /\ \A x \in R \cup (S \ R) : f[x] \in Int
  BY FS_Subset
<1>2. Total(f, R \cup (S \ R)) = Total(f, R) + Total(f, S \ R)
  BY <1>1, TotalUnion
<1>3. Total(f, R) \in Nat /\ Total(f, S \ R) \in Nat
  BY <1>1, TotalNat
<1>4. Total(f, R \cup (S \ R)) = Total(f, S)
  BY <1>1, Zenon
<1> QED
  BY <1>2, <1>3, <1>4

(* The terms of a part of S, as a sum over all of S.                        *)
LEMMA TotalWithin ==
    ASSUME NEW f, NEW g, NEW S, IsFiniteSet(S), NEW R \in SUBSET S,
           \A x \in R : f[x] \in Int /\ g[x] = f[x],
           \A x \in S \ R : g[x] = 0
    PROVE  Total(f, R) = Total(g, S)
<1>1. /\ IsFiniteSet(R) /\ IsFiniteSet(S \ R) /\ R \cap (S \ R) = {} /\ R \cup (S \ R) = S
      /\ \A x \in R \cup (S \ R) : g[x] \in Int
  BY FS_Subset
<1>2. Total(g, R \cup (S \ R)) = Total(g, R) + Total(g, S \ R)
  BY <1>1, TotalUnion
<1>3. Total(g, R \cup (S \ R)) = Total(g, S)
  BY <1>1, Zenon
<1>4. Total(g, R) = Total(f, R) /\ Total(f, R) \in Int
  BY <1>1, TotalSame, TotalType
<1>5. Total(g, S \ R) = 0
  BY <1>1, TotalZero
<1> QED
  BY <1>2, <1>3, <1>4, <1>5

LEMMA TotalTerm ==
    ASSUME NEW f, NEW S, IsFiniteSet(S), \A x \in S : f[x] \in Nat, NEW y \in S
    PROVE  f[y] <= Total(f, S)
<1>1. Total(f, S) = f[y] + Total(f, S \ {y})
  BY TotalSplit
<1>2. Total(f, S \ {y}) \in Nat
  BY FS_Subset, TotalNat
<1> QED
  BY <1>1, <1>2

(* One term changes.                                                        *)
LEMMA TotalChange ==
    ASSUME NEW f, NEW g, NEW S, IsFiniteSet(S), NEW y \in S,
           \A x \in S : f[x] \in Int,
           g[y] \in Int,
           \A x \in S \ {y} : g[x] = f[x]
    PROVE  Total(g, S) = Total(f, S) + g[y] - f[y]
<1>1. IsFiniteSet(S \ {y}) /\ \A x \in S : g[x] \in Int
  BY FS_Subset
<1>2. Total(g, S \ {y}) = Total(f, S \ {y}) /\ Total(f, S \ {y}) \in Int
  BY <1>1, TotalSame, TotalType
<1>3. Total(f, S) = f[y] + Total(f, S \ {y}) /\ Total(g, S) = g[y] + Total(g, S \ {y})
  BY <1>1, TotalSplit
<1> QED
  BY <1>2, <1>3

(* The only term that is not zero.                                          *)
LEMMA TotalSingle ==
    ASSUME NEW f, NEW S, IsFiniteSet(S), NEW y \in S,
           f[y] \in Int, \A x \in S \ {y} : f[x] = 0
    PROVE  Total(f, S) = f[y]
<1>1. IsFiniteSet(S \ {y}) /\ \A x \in S : f[x] \in Int
  BY FS_Subset
<1>2. Total(f, S \ {y}) = 0
  BY <1>1, TotalZero
<1> QED
  BY <1>1, <1>2, TotalSplit

(* A table row[x][y] and its transpose column[y][x], with the sums of the   *)
(* rows and those of the columns.                                           *)
TableSums(row, column, rowSum, columnSum, R, S) ==
    /\ \A x \in R, y \in S : row[x][y] \in Int /\ column[y][x] = row[x][y]
    /\ \A x \in R : rowSum[x] = Total(row[x], S)
    /\ \A y \in S : columnSum[y] = Total(column[y], R)

(* Summed by rows or by columns, a table has the same total.                *)
LEMMA TotalSwap ==
    ASSUME NEW f, NEW column, NEW g, NEW h, NEW R, NEW S, IsFiniteSet(R), IsFiniteSet(S),
           TableSums(f, column, g, h, R, S)
    PROVE  Total(g, R) = Total(h, S)
<1> USE DEF TableSums
<1> DEFINE below(A) == [y \in S |-> Total(column[y], A)]
           T == {A \in SUBSET R : Total(g, A) = Total(below(A), S)}
<1>1. {} \in T
  <2>1. \A y \in S : below({})[y] = 0
    BY TotalEmpty
  <2> HIDE DEF below
  <2> QED
    BY <2>1, TotalEmpty, TotalZero
<1>2. ASSUME NEW A \in SUBSET R, NEW x \in R, A \in T, x \notin A
      PROVE  A \cup {x} \in T
  <2>1. IsFiniteSet(A) /\ \A z \in A \cup {x}, y \in S : column[y][z] = f[z][y] /\ f[z][y] \in Int
    BY <1>2, FS_Subset
  <2>2. \A z \in A \cup {x} : g[z] \in Int
    BY <2>1, TotalType
  <2>3. Total(g, A \cup {x}) = Total(g, A) + g[x]
    BY <1>2, <2>1, <2>2, TotalAdd
  <2>4. ASSUME NEW y \in S
        PROVE  /\ below(A)[y] \in Int /\ f[x][y] \in Int
               /\ below(A \cup {x})[y] = below(A)[y] + f[x][y]
    <3>1. \A z \in A \cup {x} : column[y][z] \in Int
      BY <2>1
    <3>2. column[y][x] = f[x][y] /\ f[x][y] \in Int
      BY <2>1
    <3>3. Total(column[y], A \cup {x}) = Total(column[y], A) + column[y][x]
      BY <1>2, <2>1, <3>1, TotalAdd
    <3>4. Total(column[y], A) \in Int
      BY <2>1, <3>1, TotalType
    <3> QED BY <3>2, <3>3, <3>4
  <2>5. Total(below(A \cup {x}), S) = Total(below(A), S) + Total(f[x], S)
    <3> DEFINE before == below(A)
               row == f[x]
               after == below(A \cup {x})
    <3>1. \A y \in S : before[y] \in Int /\ row[y] \in Int /\ after[y] = before[y] + row[y]
      BY <2>4
    <3> HIDE DEF before, row, after
    <3>2. Total(after, S) = Total(before, S) + Total(row, S)
      BY <3>1, TotalSum
    <3> QED BY <3>2 DEF before, row, after
  <2> HIDE DEF below
  <2> QED
    BY <1>2, <2>3, <2>5
<1>3. R \in T
  <2> HIDE DEF T
  <2>1. \A A \in SUBSET R : A \in T
    BY <1>1, <1>2, SubsetInduction
  <2> QED BY <2>1
<1>4. Total(g, R) = Total(below(R), S)
  BY <1>3
<1>5. \A y \in S : below(R)[y] = h[y]
  OBVIOUS
<1> HIDE DEF below
<1> QED
  BY <1>4, <1>5, TotalSame
=============================================================================

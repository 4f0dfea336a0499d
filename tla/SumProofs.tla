------------------------------ MODULE SumProofs ------------------------------
(***************************************************************************)
(* Sums over finite sets: what SumFunctionOnSet of the community modules   *)
(* computes, for every function into the integers.  Its definition chooses *)
(* a solution of a recursive equation; these lemmas show that there is     *)
(* one, and that the order in which it takes the summands does not matter. *)
(* Induction is over sets (of numbers, of subsets), as the provers cannot  *)
(* instantiate a theorem about a predicate.                                *)
(***************************************************************************)
EXTENDS Integers, Functions, FiniteSets, FiniteSetTheorems, WellFoundedInduction, TLAPS

\* A set of naturals that is not empty has a least element.
LEMMA LeastElement ==
    ASSUME NEW T \in SUBSET Nat, T # {}
    PROVE  \E x \in T : \A y \in T : ~ y < x
<1>1. PICK x \in T : \A y \in T : ~(<<y, x>> \in OpToRel(<, Nat))
    BY WFMin, NatLessThanWellFounded
<1>2. ASSUME NEW y \in T PROVE ~ y < x
    BY <1>1, <1>2 DEF OpToRel
<1> QED BY <1>2

\* Induction over the naturals, with the set of the numbers that have the
\* property in the place of a predicate
LEMMA NatSetInduction ==
    ASSUME NEW T \in SUBSET Nat, 0 \in T, \A n \in T : n + 1 \in T
    PROVE  T = Nat
<1>1. SUFFICES ASSUME Nat \ T # {} PROVE FALSE
    OBVIOUS
<1>2. PICK x \in Nat \ T : \A y \in Nat \ T : ~ y < x
    BY <1>1, LeastElement
<1>3. x # 0 /\ x - 1 \in Nat /\ x - 1 < x
    BY <1>2
<1>4. x - 1 \in T
    BY <1>2, <1>3
<1> QED BY <1>2, <1>3, <1>4

\* Induction over the subsets of a finite set
LEMMA SubsetInduction ==
    ASSUME NEW S, IsFiniteSet(S),
           NEW T \in SUBSET SUBSET S, {} \in T,
           \A s \in SUBSET S : s # {} /\ (\A x \in s : s \ {x} \in T) => s \in T
    PROVE  T = SUBSET S
<1> DEFINE N == {n \in Nat : \A s \in SUBSET S : Cardinality(s) = n => s \in T}
<1>1. \A s \in SUBSET S : IsFiniteSet(s) /\ Cardinality(s) \in Nat
    BY FS_Subset, FS_CardinalityType
<1>2. 0 \in N
    BY <1>1, FS_EmptySet
<1>3. ASSUME NEW n \in N PROVE n + 1 \in N
    <2>1. SUFFICES ASSUME NEW s \in SUBSET S, Cardinality(s) = n + 1 PROVE s \in T
        OBVIOUS
    <2>2. s # {}
        BY <2>1, FS_EmptySet
    <2>3. ASSUME NEW x \in s PROVE s \ {x} \in T
        <3>1. Cardinality(s \ {x}) = n
            BY <1>1, <2>1, FS_RemoveElement
        <3> QED BY <3>1
    <2> QED BY <2>2, <2>3
<1>4. N = Nat
    BY <1>2, <1>3, NatSetInduction
<1> QED BY <1>1, <1>4
-----------------------------------------------------------------------------
(* The recursive equation *)

unfold(f, g, s) ==
    IF s = {} THEN 0 ELSE f[CHOOSE x \in s : TRUE] + g[s \ {CHOOSE x \in s : TRUE}]

\* g has the sum of f over every subset of S.
Solves(f, g, S) == g = [s \in SUBSET S |-> unfold(f, g, s)]

\* The definition of SumFunctionOnSet in terms of the equation
LEMMA SumUnfolds ==
    ASSUME NEW S, NEW f
    PROVE  SumFunctionOnSet(f, S) = (CHOOSE g : Solves(f, g, S))[S]
BY DEF SumFunctionOnSet, FoldFunctionOnSet, MapThenFoldSet, unfold, Solves

\* The equation has a solution: one for the subsets of up to n elements extends
\* to those of n + 1.
LEMMA SolutionExists ==
    ASSUME NEW S, IsFiniteSet(S), NEW f
    PROVE  \E g : Solves(f, g, S)
<1> DEFINE D(n) == {s \in SUBSET S : Cardinality(s) <= n}
           Solvable(n) == \E g : g = [s \in D(n) |-> unfold(f, g, s)]
           T    == {n \in Nat : Solvable(n)}
<1>1. \A s \in SUBSET S : IsFiniteSet(s) /\ Cardinality(s) \in Nat
    BY FS_Subset, FS_CardinalityType
<1>2. 0 \in T
    <2>1. \A s \in D(0) : s = {}
        BY <1>1, FS_EmptySet
    <2>2. [s \in D(0) |-> 0] = [s \in D(0) |-> unfold(f, [r \in D(0) |-> 0], s)]
        BY <2>1 DEF unfold
    <2> QED BY <2>2
<1>3. ASSUME NEW n \in T PROVE n + 1 \in T
    <2>1. PICK g : g = [s \in D(n) |-> unfold(f, g, s)]
        OBVIOUS
    <2> DEFINE h == [s \in D(n + 1) |-> unfold(f, g, s)]
    <2>2. D(n) \subseteq D(n + 1)
        BY <1>1
    <2>3. \A s \in D(n) : h[s] = g[s]
        BY <2>1, <2>2
    <2>4. ASSUME NEW s \in D(n + 1) PROVE unfold(f, g, s) = unfold(f, h, s)
        <3>1. CASE s = {}
            BY <3>1 DEF unfold
        <3>2. CASE s # {}
            <4> DEFINE x == CHOOSE x \in s : TRUE
            <4>1. x \in s
                BY <3>2
            <4>2. Cardinality(s \ {x}) = Cardinality(s) - 1
                BY <1>1, <4>1, FS_RemoveElement
            <4>3. s \ {x} \in D(n)
                BY <1>1, <4>2
            <4> QED BY <4>3, <2>3, <3>2 DEF unfold
        <3> QED BY <3>1, <3>2
    <2>5. h = [s \in D(n + 1) |-> unfold(f, h, s)]
        BY <2>4
    <2>6. Solvable(n + 1)
        BY <2>5
    <2> HIDE DEF Solvable
    <2> QED BY <2>6
<1>4. T = Nat
    BY <1>2, <1>3, NatSetInduction
<1>5. D(Cardinality(S)) = SUBSET S
    BY <1>1, FS_Subset
<1>6. Cardinality(S) \in T
    BY <1>4, FS_CardinalityType
<1> QED BY <1>5, <1>6 DEF Solves

\* A solution is integer where the summands are.
LEMMA SolutionType ==
    ASSUME NEW S, IsFiniteSet(S), NEW f, \A x \in S : f[x] \in Int,
           NEW g, Solves(f, g, S)
    PROVE  \A s \in SUBSET S : g[s] \in Int
<1> DEFINE T == {s \in SUBSET S : g[s] \in Int}
<1>1. {} \in T
    BY DEF Solves, unfold
<1>2. ASSUME NEW s \in SUBSET S, s # {}, \A x \in s : s \ {x} \in T PROVE s \in T
    <2> DEFINE x == CHOOSE x \in s : TRUE
    <2>1. x \in s
        BY <1>2
    <2>2. g[s \ {x}] \in Int
        BY <1>2, <2>1
    <2>3. g[s] = f[x] + g[s \ {x}]
        BY <1>2 DEF Solves, unfold
    <2> QED BY <2>1, <2>2, <2>3
<1>3. T \subseteq SUBSET S
    OBVIOUS
<1>4. T = SUBSET S
    <2> HIDE DEF T
    <2> QED BY <1>1, <1>2, <1>3, SubsetInduction
<1> QED BY <1>4

\* Two solutions agree wherever their functions do.
LEMMA SolutionsAgree ==
    ASSUME NEW S, NEW R \in SUBSET S, IsFiniteSet(S), NEW f, NEW e, NEW g, NEW h,
           Solves(f, g, S), Solves(e, h, R), \A x \in R : f[x] = e[x]
    PROVE  \A s \in SUBSET R : g[s] = h[s]
<1> DEFINE T == {s \in SUBSET R : g[s] = h[s]}
<1>1. IsFiniteSet(R)
    BY FS_Subset
<1>2. {} \in T
    BY DEF Solves, unfold
<1>3. ASSUME NEW s \in SUBSET R, s # {}, \A x \in s : s \ {x} \in T PROVE s \in T
    <2> DEFINE x == CHOOSE x \in s : TRUE
    <2>1. x \in s
        BY <1>3
    <2>2. g[s \ {x}] = h[s \ {x}]
        BY <1>3, <2>1
    <2>3. g[s] = f[x] + g[s \ {x}] /\ h[s] = e[x] + h[s \ {x}]
        BY <1>3 DEF Solves, unfold
    <2> QED BY <2>1, <2>2, <2>3
<1>4. T \subseteq SUBSET R
    OBVIOUS
<1>5. T = SUBSET R
    <2> HIDE DEF T
    <2> QED BY <1>1, <1>2, <1>3, <1>4, SubsetInduction
<1> QED BY <1>5

\* The order of the summands does not matter.
LEMMA AnyFirst ==
    ASSUME NEW S, IsFiniteSet(S), NEW f, \A x \in S : f[x] \in Int,
           NEW g, Solves(f, g, S)
    PROVE  \A s \in SUBSET S : \A x \in s : g[s] = f[x] + g[s \ {x}]
<1> DEFINE T == {s \in SUBSET S : \A x \in s : g[s] = f[x] + g[s \ {x}]}
<1>1. {} \in T
    OBVIOUS
<1>2. ASSUME NEW s \in SUBSET S, s # {}, \A x \in s : s \ {x} \in T PROVE s \in T
    <2> DEFINE c == CHOOSE x \in s : TRUE
    <2>1. c \in s
        BY <1>2
    <2>2. g[s] = f[c] + g[s \ {c}]
        BY <1>2 DEF Solves, unfold
    <2>3. SUFFICES ASSUME NEW x \in s, x # c PROVE g[s] = f[x] + g[s \ {x}]
        BY <2>2
    <2> HIDE DEF c
    <2>4. g[s \ {c}] = f[x] + g[(s \ {c}) \ {x}]
        BY <1>2, <2>1, <2>3
    <2>5. g[s \ {x}] = f[c] + g[(s \ {x}) \ {c}]
        BY <1>2, <2>1, <2>3
    <2>6. (s \ {c}) \ {x} = (s \ {x}) \ {c}
        OBVIOUS
    <2>7. f[x] \in Int /\ f[c] \in Int /\ g[(s \ {c}) \ {x}] \in Int
        BY <2>1, SolutionType
    <2> HIDE DEF T
    <2>8. g[s] = f[c] + (f[x] + g[(s \ {c}) \ {x}]) /\ g[s \ {x}] = f[c] + g[(s \ {c}) \ {x}]
        BY <2>2, <2>4, <2>5, <2>6
    <2> QED BY <2>7, <2>8
<1>3. T \subseteq SUBSET S
    OBVIOUS
<1>4. T = SUBSET S
    <2> HIDE DEF T
    <2> QED BY <1>1, <1>2, <1>3, SubsetInduction
<1> QED BY <1>4
-----------------------------------------------------------------------------
(* Sums *)

\* The chosen solution is one.
LEMMA SumSolution ==
    ASSUME NEW S, IsFiniteSet(S), NEW f
    PROVE  \E g : Solves(f, g, S) /\ SumFunctionOnSet(f, S) = g[S]
BY SolutionExists, SumUnfolds

\* The sum over no element is zero.
LEMMA SumEmpty ==
    ASSUME NEW f
    PROVE  SumFunctionOnSet(f, {}) = 0
<1>1. PICK g : Solves(f, g, {}) /\ SumFunctionOnSet(f, {}) = g[{}]
    BY SumSolution, FS_EmptySet
<1> QED BY <1>1 DEF Solves, unfold

\* A sum of integers is an integer.
LEMMA SumType ==
    ASSUME NEW S, IsFiniteSet(S), NEW f, \A x \in S : f[x] \in Int
    PROVE  SumFunctionOnSet(f, S) \in Int
<1>1. PICK g : Solves(f, g, S) /\ SumFunctionOnSet(f, S) = g[S]
    BY SumSolution
<1> QED BY <1>1, SolutionType

\* The sum depends on the values in the set alone.
LEMMA SumSame ==
    ASSUME NEW S, IsFiniteSet(S), NEW f, NEW e, \A x \in S : f[x] = e[x]
    PROVE  SumFunctionOnSet(f, S) = SumFunctionOnSet(e, S)
<1>1. PICK g : Solves(f, g, S) /\ SumFunctionOnSet(f, S) = g[S]
    BY SumSolution
<1>2. PICK h : Solves(e, h, S) /\ SumFunctionOnSet(e, S) = h[S]
    BY SumSolution
<1> QED BY <1>1, <1>2, SolutionsAgree

\* Any element can be taken out of a sum.
LEMMA SumSplit ==
    ASSUME NEW S, IsFiniteSet(S), NEW f, \A x \in S : f[x] \in Int, NEW x \in S
    PROVE  SumFunctionOnSet(f, S) = f[x] + SumFunctionOnSet(f, S \ {x})
<1>1. PICK g : Solves(f, g, S) /\ SumFunctionOnSet(f, S) = g[S]
    BY SumSolution
<1>2. IsFiniteSet(S \ {x})
    BY FS_RemoveElement
<1>3. PICK h : Solves(f, h, S \ {x}) /\ SumFunctionOnSet(f, S \ {x}) = h[S \ {x}]
    BY <1>2, SumSolution
<1>4. g[S \ {x}] = h[S \ {x}]
    BY <1>1, <1>3, SolutionsAgree
<1> QED BY <1>1, <1>3, <1>4, AnyFirst

\* A sum of zeros is zero.
LEMMA SumZeros ==
    ASSUME NEW S, IsFiniteSet(S), NEW f, \A x \in S : f[x] = 0
    PROVE  SumFunctionOnSet(f, S) = 0
<1> DEFINE T == {s \in SUBSET S : SumFunctionOnSet(f, s) = 0}
<1>1. {} \in T
    BY SumEmpty
<1>2. ASSUME NEW s \in SUBSET S, s # {}, \A x \in s : s \ {x} \in T PROVE s \in T
    <2>1. PICK x \in s : TRUE
        BY <1>2
    <2>2. SumFunctionOnSet(f, s \ {x}) = 0 /\ f[x] = 0
        BY <1>2, <2>1
    <2>3. IsFiniteSet(s) /\ \A y \in s : f[y] \in Int
        BY <1>2, FS_Subset
    <2>4. SumFunctionOnSet(f, s) = f[x] + SumFunctionOnSet(f, s \ {x})
        BY <2>1, <2>3, SumSplit
    <2> QED BY <2>2, <2>4
<1>3. T \subseteq SUBSET S
    OBVIOUS
<1>4. T = SUBSET S
    <2> HIDE DEF T
    <2> QED BY <1>1, <1>2, <1>3, SubsetInduction
<1> QED BY <1>4

\* A sum of naturals is a natural.
LEMMA SumNat ==
    ASSUME NEW S, IsFiniteSet(S), NEW f, \A x \in S : f[x] \in Nat
    PROVE  SumFunctionOnSet(f, S) \in Nat
<1> DEFINE T == {s \in SUBSET S : SumFunctionOnSet(f, s) \in Nat}
<1>1. {} \in T
    BY SumEmpty
<1>2. ASSUME NEW s \in SUBSET S, s # {}, \A x \in s : s \ {x} \in T PROVE s \in T
    <2>1. PICK x \in s : TRUE
        BY <1>2
    <2>2. SumFunctionOnSet(f, s \ {x}) \in Nat /\ f[x] \in Nat
        BY <1>2, <2>1
    <2>3. IsFiniteSet(s) /\ \A y \in s : f[y] \in Int
        BY <1>2, FS_Subset
    <2>4. SumFunctionOnSet(f, s) = f[x] + SumFunctionOnSet(f, s \ {x})
        BY <2>1, <2>3, SumSplit
    <2> QED BY <2>2, <2>4
<1>3. T \subseteq SUBSET S
    OBVIOUS
<1>4. T = SUBSET S
    <2> HIDE DEF T
    <2> QED BY <1>1, <1>2, <1>3, SubsetInduction
<1> QED BY <1>4

\* When no summand falls, neither does the sum.
LEMMA SumGrows ==
    ASSUME NEW S, IsFiniteSet(S), NEW f, NEW g,
           \A x \in S : f[x] \in Nat /\ g[x] \in Nat /\ g[x] >= f[x]
    PROVE  SumFunctionOnSet(f, S) <= SumFunctionOnSet(g, S)
<1> DEFINE T == {s \in SUBSET S : SumFunctionOnSet(f, s) <= SumFunctionOnSet(g, s)}
<1>1. {} \in T
    BY SumEmpty
<1>2. ASSUME NEW s \in SUBSET S, s # {}, \A x \in s : s \ {x} \in T PROVE s \in T
    <2>1. PICK x \in s : TRUE
        BY <1>2
    <2>2. /\ SumFunctionOnSet(f, s \ {x}) <= SumFunctionOnSet(g, s \ {x})
          /\ f[x] \in Nat /\ g[x] \in Nat /\ g[x] >= f[x]
        BY <1>2, <2>1
    <2>3. /\ IsFiniteSet(s) /\ IsFiniteSet(s \ {x})
          /\ \A y \in s : f[y] \in Nat /\ g[y] \in Nat
        BY <1>2, FS_Subset
    <2>4. /\ SumFunctionOnSet(f, s) = f[x] + SumFunctionOnSet(f, s \ {x})
          /\ SumFunctionOnSet(g, s) = g[x] + SumFunctionOnSet(g, s \ {x})
        <3>1. \A y \in s : f[y] \in Int /\ g[y] \in Int
            BY <2>3
        <3> QED BY <2>1, <2>3, <3>1, SumSplit
    <2>5. SumFunctionOnSet(f, s \ {x}) \in Nat /\ SumFunctionOnSet(g, s \ {x}) \in Nat
        BY <2>3, SumNat
    <2> QED BY <2>2, <2>4, <2>5
<1>3. T \subseteq SUBSET S
    OBVIOUS
<1>4. T = SUBSET S
    <2> HIDE DEF T
    <2> QED BY <1>1, <1>2, <1>3, SubsetInduction
<1> QED BY <1>4

\* When one summand changes the sum changes by as much: what the totals of the
\* code do with every assignment to a mapping.
LEMMA SumChange ==
    ASSUME NEW S, IsFiniteSet(S), NEW f, \A x \in S : f[x] \in Int,
           NEW e, \A x \in S : e[x] \in Int,
           NEW x \in S, \A y \in S \ {x} : e[y] = f[y]
    PROVE  SumFunctionOnSet(e, S) = SumFunctionOnSet(f, S) - f[x] + e[x]
<1>1. IsFiniteSet(S \ {x})
    BY FS_RemoveElement
<1>2. SumFunctionOnSet(e, S \ {x}) = SumFunctionOnSet(f, S \ {x})
    BY <1>1, SumSame
<1>3. SumFunctionOnSet(f, S \ {x}) \in Int
    BY <1>1, SumType
<1>4. /\ SumFunctionOnSet(f, S) = f[x] + SumFunctionOnSet(f, S \ {x})
      /\ SumFunctionOnSet(e, S) = e[x] + SumFunctionOnSet(e, S \ {x})
    BY SumSplit
<1> QED BY <1>2, <1>3, <1>4

\* An element that joins the set adds its summand.
LEMMA SumJoin ==
    ASSUME NEW S, IsFiniteSet(S), NEW f, NEW x, x \notin S, f[x] \in Int, \A y \in S : f[y] \in Int
    PROVE  SumFunctionOnSet(f, S \cup {x}) = f[x] + SumFunctionOnSet(f, S)
<1>1. IsFiniteSet(S \cup {x}) /\ (S \cup {x}) \ {x} = S
    BY FS_AddElement
<1>2. \A y \in S \cup {x} : f[y] \in Int
    OBVIOUS
<1> QED BY <1>1, <1>2, SumSplit

\* The sum over two sets that have no element in common
LEMMA SumUnion ==
    ASSUME NEW S, IsFiniteSet(S), NEW R, IsFiniteSet(R), S \cap R = {},
           NEW f, \A x \in S \cup R : f[x] \in Int
    PROVE  SumFunctionOnSet(f, S \cup R) = SumFunctionOnSet(f, S) + SumFunctionOnSet(f, R)
<1> DEFINE sum(s) == SumFunctionOnSet(f, s)
           T == {s \in SUBSET R : sum(S \cup s) = sum(S) + sum(s)}
<1>1. \A s \in SUBSET R : /\ IsFiniteSet(s) /\ IsFiniteSet(S \cup s)
                          /\ \A x \in s : f[x] \in Int
                          /\ \A x \in S \cup s : f[x] \in Int
    BY FS_Subset, FS_Union
<1>2. \A s \in SUBSET R : sum(s) \in Int /\ sum(S) \in Int
    BY <1>1, SumType
<1>3. {} \in T
    <2>1. S \cup {} = S /\ sum({}) = 0 /\ sum(S) \in Int
        BY <1>2, SumEmpty
    <2> HIDE DEF sum
    <2> QED BY <2>1
<1>4. ASSUME NEW s \in SUBSET R, s # {}, \A x \in s : s \ {x} \in T PROVE s \in T
    <2>1. PICK x \in s : TRUE
        BY <1>4
    <2>2. sum(s) = f[x] + sum(s \ {x})
        BY <1>1, <2>1, SumSplit
    <2>3. sum(S \cup s) = f[x] + sum((S \cup s) \ {x})
        <3>1. x \in S \cup s /\ IsFiniteSet(S \cup s) /\ \A y \in S \cup s : f[y] \in Int
            BY <1>1, <2>1
        <3> QED BY <3>1, SumSplit
    <2>4. (S \cup s) \ {x} = S \cup (s \ {x})
        BY <2>1
    <2>5. sum(S \cup (s \ {x})) = sum(S) + sum(s \ {x})
        BY <1>4, <2>1
    <2>6. f[x] \in Int /\ sum(S) \in Int /\ sum(s \ {x}) \in Int
        BY <1>1, <1>2, <2>1
    <2>7. sum(S \cup s) = f[x] + (sum(S) + sum(s \ {x}))
        BY <2>3, <2>4, <2>5
    <2> HIDE DEF sum
    <2>8. sum(S \cup s) = sum(S) + sum(s)
        BY <2>2, <2>6, <2>7
    <2> QED BY <2>8
<1>5. T \subseteq SUBSET R
    OBVIOUS
<1>6. T = SUBSET R
    <2> HIDE DEF T
    <2> QED BY <1>3, <1>4, <1>5, SubsetInduction
<1> QED BY <1>6

\* A part of a sum of naturals is no more than the sum, and as much if the
\* rest is zeros.
LEMMA SumPart ==
    ASSUME NEW S, IsFiniteSet(S), NEW R \in SUBSET S, NEW f, \A x \in S : f[x] \in Nat
    PROVE  /\ SumFunctionOnSet(f, R) <= SumFunctionOnSet(f, S)
           /\ (\A x \in S \ R : f[x] = 0) => SumFunctionOnSet(f, R) = SumFunctionOnSet(f, S)
<1>1. IsFiniteSet(R) /\ IsFiniteSet(S \ R) /\ R \cap (S \ R) = {} /\ R \cup (S \ R) = S
    BY FS_Subset
<1>2. SumFunctionOnSet(f, S) = SumFunctionOnSet(f, R) + SumFunctionOnSet(f, S \ R)
    <2>1. \A x \in R \cup (S \ R) : f[x] \in Int
        OBVIOUS
    <2>2. SumFunctionOnSet(f, R \cup (S \ R)) = SumFunctionOnSet(f, R) + SumFunctionOnSet(f, S \ R)
        BY <1>1, <2>1, SumUnion
    <2> QED BY <1>1, <2>2
<1>3. SumFunctionOnSet(f, R) \in Nat /\ SumFunctionOnSet(f, S \ R) \in Nat
    BY <1>1, SumNat
<1>4. (\A x \in S \ R : f[x] = 0) => SumFunctionOnSet(f, S \ R) = 0
    BY <1>1, SumZeros
<1> QED BY <1>2, <1>3, <1>4

\* The elements for which d is a, or in A
Fibre(d, S, a) == {x \in S : d[x] = a}
Preimage(d, S, A) == {x \in S : d[x] \in A}

\* Summed up by the value of d, the summands are those with a value in A.
LEMMA SumByFibre ==
    ASSUME NEW S, IsFiniteSet(S), NEW f, \A x \in S : f[x] \in Int, NEW d,
           NEW A, IsFiniteSet(A), NEW g,
           \A a \in A : g[a] = SumFunctionOnSet(f, Fibre(d, S, a))
    PROVE  SumFunctionOnSet(g, A) = SumFunctionOnSet(f, Preimage(d, S, A))
<1> DEFINE of(a) == {x \in S : d[x] = a}
           within(s) == {x \in S : d[x] \in s}
           T == {s \in SUBSET A : SumFunctionOnSet(g, s) = SumFunctionOnSet(f, within(s))}
<1>1. \A a \in A : IsFiniteSet(of(a)) /\ \A x \in of(a) : f[x] \in Int
    BY FS_Subset
<1>2. \A s \in SUBSET A : IsFiniteSet(within(s)) /\ \A x \in within(s) : f[x] \in Int
    BY FS_Subset
<1>3. \A a \in A : g[a] \in Int
    BY <1>1, SumType DEF Fibre
<1>4. {} \in T
    <2>1. within({}) = {}
        OBVIOUS
    <2> QED BY <2>1, SumEmpty
<1>5. ASSUME NEW s \in SUBSET A, s # {}, \A x \in s : s \ {x} \in T PROVE s \in T
    <2>1. PICK a \in s : TRUE
        BY <1>5
    <2>2. SumFunctionOnSet(g, s) = g[a] + SumFunctionOnSet(g, s \ {a})
        <3>1. IsFiniteSet(s) /\ \A x \in s : g[x] \in Int
            BY <1>3, FS_Subset
        <3> QED BY <2>1, <3>1, SumSplit
    <2>3. within(s) = of(a) \cup within(s \ {a}) /\ of(a) \cap within(s \ {a}) = {}
        BY <2>1
    <2>4. SumFunctionOnSet(g, s \ {a}) = SumFunctionOnSet(f, within(s \ {a}))
        BY <1>5, <2>1
    <2>5. g[a] = SumFunctionOnSet(f, of(a))
        BY <2>1 DEF Fibre
    <2>6. /\ IsFiniteSet(of(a)) /\ IsFiniteSet(within(s \ {a}))
          /\ \A x \in of(a) \cup within(s \ {a}) : f[x] \in Int
        BY <1>1, <1>2, <2>1
    <2> HIDE DEF of, within
    <2>7. SumFunctionOnSet(f, of(a) \cup within(s \ {a}))
            = SumFunctionOnSet(f, of(a)) + SumFunctionOnSet(f, within(s \ {a}))
        BY <2>3, <2>6, SumUnion
    <2> QED BY <2>2, <2>3, <2>4, <2>5, <2>7
<1>6. T \subseteq SUBSET A
    OBVIOUS
<1>7. T = SUBSET A
    <2> HIDE DEF T
    <2> QED BY <1>4, <1>5, <1>6, SubsetInduction
<1> QED BY <1>7 DEF Preimage

\* A sum is linear in its summands.
LEMMA SumLinear ==
    ASSUME NEW S, IsFiniteSet(S), NEW f, NEW g, NEW c \in Int,
           \A x \in S : f[x] \in Int /\ g[x] \in Int,
           NEW e, \A x \in S : e[x] = f[x] + c * g[x]
    PROVE  SumFunctionOnSet(e, S) = SumFunctionOnSet(f, S) + c * SumFunctionOnSet(g, S)
<1> DEFINE sum(h, s) == SumFunctionOnSet(h, s)
           T == {s \in SUBSET S : sum(e, s) = sum(f, s) + c * sum(g, s)}
<1>1. \A s \in SUBSET S : IsFiniteSet(s) /\ \A x \in s : e[x] \in Int /\ f[x] \in Int /\ g[x] \in Int
    BY FS_Subset
<1>2. \A s \in SUBSET S : sum(f, s) \in Int /\ sum(g, s) \in Int
    BY <1>1, SumType
<1>3. {} \in T
    <2>1. sum(e, {}) = 0 /\ sum(f, {}) = 0 /\ sum(g, {}) = 0
        BY SumEmpty
    <2> HIDE DEF sum
    <2> QED BY <2>1
<1>4. ASSUME NEW s \in SUBSET S, s # {}, \A x \in s : s \ {x} \in T PROVE s \in T
    <2>1. PICK x \in s : TRUE
        BY <1>4
    <2>2. /\ sum(e, s) = e[x] + sum(e, s \ {x})
          /\ sum(f, s) = f[x] + sum(f, s \ {x})
          /\ sum(g, s) = g[x] + sum(g, s \ {x})
        BY <1>1, <2>1, SumSplit
    <2>3. sum(f, s \ {x}) \in Int /\ sum(g, s \ {x}) \in Int /\ f[x] \in Int /\ g[x] \in Int
        BY <1>1, <1>2, <2>1
    <2> HIDE DEF sum
    <2>4. sum(e, s \ {x}) = sum(f, s \ {x}) + c * sum(g, s \ {x})
        BY <1>4, <2>1
    <2>5. e[x] = f[x] + c * g[x]
        BY <2>1
    <2>6. \A p, q, r, u \in Int : (p + c * q) + (r + c * u) = (p + r) + c * (q + u)
        OBVIOUS
    <2>7. sum(e, s) = (f[x] + sum(f, s \ {x})) + c * (g[x] + sum(g, s \ {x}))
        BY <2>2, <2>3, <2>4, <2>5, <2>6
    <2> QED BY <2>2, <2>7
<1>5. T \subseteq SUBSET S
    OBVIOUS
<1>6. T = SUBSET S
    <2> HIDE DEF T
    <2> QED BY <1>3, <1>4, <1>5, SubsetInduction
<1> QED BY <1>6

\* The sum of the sums of two functions
LEMMA SumOfSums ==
    ASSUME NEW S, IsFiniteSet(S), NEW f, NEW g,
           \A x \in S : f[x] \in Int /\ g[x] \in Int,
           NEW e, \A x \in S : e[x] = f[x] + g[x]
    PROVE  SumFunctionOnSet(e, S) = SumFunctionOnSet(f, S) + SumFunctionOnSet(g, S)
<1>1. \A x \in S : e[x] = f[x] + 1 * g[x]
    OBVIOUS
<1>2. SumFunctionOnSet(e, S) = SumFunctionOnSet(f, S) + 1 * SumFunctionOnSet(g, S)
    BY <1>1, SumLinear
<1>3. SumFunctionOnSet(g, S) \in Int
    BY SumType
<1> QED BY <1>2, <1>3

\* A factor of every summand is a factor of the sum.
LEMMA SumScaled ==
    ASSUME NEW S, IsFiniteSet(S), NEW g, NEW c \in Int, \A x \in S : g[x] \in Int,
           NEW e, \A x \in S : e[x] = c * g[x]
    PROVE  SumFunctionOnSet(e, S) = c * SumFunctionOnSet(g, S)
<1> DEFINE zero == [x \in S |-> 0]
<1>1. \A x \in S : zero[x] = 0
    OBVIOUS
<1> HIDE DEF zero
<1>2. \A x \in S : e[x] = zero[x] + c * g[x] /\ zero[x] \in Int
    BY <1>1
<1>3. SumFunctionOnSet(e, S) = SumFunctionOnSet(zero, S) + c * SumFunctionOnSet(g, S)
    BY <1>2, SumLinear
<1>4. SumFunctionOnSet(zero, S) = 0 /\ SumFunctionOnSet(g, S) \in Int
    BY <1>1, SumZeros, SumType
<1>5. c * SumFunctionOnSet(g, S) \in Int
    BY <1>4
<1> QED BY <1>3, <1>4, <1>5

\* No summand above a bound: no sum above the bound times their number
LEMMA SumAtMost ==
    ASSUME NEW S, IsFiniteSet(S), NEW f, NEW c \in Nat, \A x \in S : f[x] \in Nat /\ f[x] <= c
    PROVE  SumFunctionOnSet(f, S) <= Cardinality(S) * c
<1> DEFINE sum(s) == SumFunctionOnSet(f, s)
           T == {s \in SUBSET S : sum(s) <= Cardinality(s) * c}
<1>1. \A s \in SUBSET S : /\ IsFiniteSet(s) /\ Cardinality(s) \in Nat
                          /\ \A x \in s : f[x] \in Int /\ f[x] \in Nat
    BY FS_Subset, FS_CardinalityType
<1>2. \A s \in SUBSET S : sum(s) \in Nat
    BY <1>1, SumNat
<1>3. {} \in T
    <2>1. sum({}) = 0 /\ Cardinality({}) = 0
        BY SumEmpty, FS_EmptySet
    <2> HIDE DEF sum
    <2> QED BY <2>1
<1>4. ASSUME NEW s \in SUBSET S, s # {}, \A x \in s : s \ {x} \in T PROVE s \in T
    <2>1. PICK x \in s : TRUE
        BY <1>4
    <2>2. sum(s) = f[x] + sum(s \ {x})
        BY <1>1, <2>1, SumSplit
    <2>3. Cardinality(s \ {x}) = Cardinality(s) - 1 /\ Cardinality(s \ {x}) \in Nat /\ Cardinality(s) \in Nat
        BY <1>1, <2>1, FS_RemoveElement
    <2>4. sum(s \ {x}) \in Nat /\ f[x] \in Nat /\ f[x] <= c
        BY <1>2, <2>1
    <2> HIDE DEF sum
    <2>5. sum(s \ {x}) <= Cardinality(s \ {x}) * c
        BY <1>4, <2>1
    <2>6. (Cardinality(s) - 1) * c + c = Cardinality(s) * c
        BY <2>3
    <2>7. (Cardinality(s) - 1) * c \in Nat
        BY <2>3
    <2> QED BY <2>2, <2>3, <2>4, <2>5, <2>6, <2>7
<1>5. T \subseteq SUBSET S
    OBVIOUS
<1>6. T = SUBSET S
    <2> HIDE DEF T
    <2> QED BY <1>3, <1>4, <1>5, SubsetInduction
<1> QED BY <1>6

\* The order of summation over two sets does not matter.
LEMMA SumSwap ==
    ASSUME NEW S, IsFiniteSet(S), NEW R, IsFiniteSet(R), NEW f,
           \A x \in S, y \in R : f[x][y] \in Int
    PROVE  SumFunctionOnSet([x \in S |-> SumFunctionOnSet([y \in R |-> f[x][y]], R)], S)
             = SumFunctionOnSet([y \in R |-> SumFunctionOnSet([x \in S |-> f[x][y]], S)], R)
<1> DEFINE row(x) == SumFunctionOnSet([y \in R |-> f[x][y]], R)
           rows == [x \in S |-> row(x)]
           part(s) == [x \in s |-> row(x)]
           column(y, s) == SumFunctionOnSet([x \in S |-> f[x][y]], s)
           columns(s) == [y \in R |-> column(y, s)]
           T == {s \in SUBSET S : SumFunctionOnSet(rows, s) = SumFunctionOnSet(columns(s), R)}
<1>1. \A s \in SUBSET S : IsFiniteSet(s)
    BY FS_Subset
<1>2. \A x \in S : row(x) \in Int
    BY SumType
<1>3. \A s \in SUBSET S : \A y \in R : column(y, s) \in Int
    BY <1>1, SumType
<1>4. {} \in T
    <2>1. \A y \in R : columns({})[y] = 0
        BY SumEmpty
    <2> HIDE DEF columns
    <2>2. SumFunctionOnSet(columns({}), R) = 0
        BY <2>1, SumZeros
    <2> QED BY <2>2, SumEmpty
<1>5. ASSUME NEW s \in SUBSET S, s # {}, \A x \in s : s \ {x} \in T PROVE s \in T
    <2>1. PICK x \in s : TRUE
        BY <1>5
    <2>2. SumFunctionOnSet(rows, s) = rows[x] + SumFunctionOnSet(rows, s \ {x})
        <3>1. \A z \in s : rows[z] \in Int
            BY <1>2
        <3> HIDE DEF rows
        <3> QED BY <1>1, <2>1, <3>1, SumSplit
    <2>3. \A y \in R : column(y, s) = f[x][y] + column(y, s \ {x})
        <3> SUFFICES ASSUME NEW y \in R PROVE column(y, s) = f[x][y] + column(y, s \ {x})
            OBVIOUS
        <3> DEFINE g == [z \in S |-> f[z][y]]
        <3>1. \A z \in s : g[z] \in Int
            OBVIOUS
        <3>2. g[x] = f[x][y]
            BY <2>1
        <3> HIDE DEF g
        <3>3. SumFunctionOnSet(g, s) = g[x] + SumFunctionOnSet(g, s \ {x})
            BY <1>1, <2>1, <3>1, SumSplit
        <3> QED BY <3>2, <3>3 DEF g
    <2> DEFINE line == [y \in R |-> f[x][y]]
    <2>4. \A y \in R : columns(s)[y] = line[y] + columns(s \ {x})[y]
        BY <2>3
    <2>5. \A y \in R : line[y] \in Int /\ columns(s \ {x})[y] \in Int
        BY <1>3, <2>1
    <2>6. rows[x] = SumFunctionOnSet(line, R)
        BY <2>1
    <2>7. SumFunctionOnSet(rows, s \ {x}) = SumFunctionOnSet(columns(s \ {x}), R)
        BY <1>5, <2>1
    <2> HIDE DEF columns, line, rows
    <2>8. SumFunctionOnSet(columns(s), R) = SumFunctionOnSet(line, R) + SumFunctionOnSet(columns(s \ {x}), R)
        BY <2>4, <2>5, SumOfSums
    <2> QED BY <2>2, <2>6, <2>7, <2>8
<1>6. T \subseteq SUBSET S
    OBVIOUS
<1>7. T = SUBSET S
    <2> HIDE DEF T
    <2> QED BY <1>4, <1>5, <1>6, SubsetInduction
<1>8. columns(S) = [y \in R |-> SumFunctionOnSet([x \in S |-> f[x][y]], S)]
    OBVIOUS
<1> HIDE DEF columns
<1>9. SumFunctionOnSet(rows, S) = SumFunctionOnSet(columns(S), R)
    BY <1>7
<1> QED BY <1>8, <1>9
=============================================================================

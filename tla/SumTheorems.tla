---------------------------- MODULE SumTheorems ----------------------------
(***************************************************************************)
(* What SumFunctionOnSet of the community modules computes: the sum of     *)
(* integers f[x] over a finite set of x, in whatever order it takes them.  *)
(*                                                                         *)
(* It is defined by recursion over the subsets of the set.  The induction  *)
(* is over them too, by their minimal elements (WFMin): a fact that fails  *)
(* of some subset fails of one of whose own subsets it holds.              *)
(***************************************************************************)
EXTENDS Integers, FiniteSets, Sequences, Functions, FiniteSetTheorems, TLAPS

\* Of a set of subsets of a finite set, one has no other below it.
LEMMA MinimalSubset ==
    ASSUME NEW S, IsFiniteSet(S), NEW C, C \subseteq SUBSET S, C # {}
    PROVE  \E m \in C : \A t \in C : t \subseteq m => t = m
<1>1. IsWellFoundedOn(StrictSubsetOrdering(S), FiniteSubsetsOf(S))
  BY FS_StrictSubsetOrderingWellFounded
<1>2. C \subseteq FiniteSubsetsOf(S)
  BY FS_Subset DEF FiniteSubsetsOf
<1>3. PICK m \in C : \A t \in C : <<t, m>> \notin StrictSubsetOrdering(S)
  BY <1>1, <1>2, WFMin
<1>4. \A t \in C : t \subseteq m => t = m
  BY <1>3 DEF StrictSubsetOrdering
<1>. QED  BY <1>4

\* The element of s that the sum takes first.
Chosen(s) == CHOOSE x \in s : TRUE

\* g gives, for every subset of S, the sum over it.
Sums(f, S, g) ==
    g = [s \in SUBSET S |-> IF s = {} THEN 0 ELSE f[Chosen(s)] + g[s \ {Chosen(s)}]]

LEMMA SumDef ==
    ASSUME NEW f, NEW S
    PROVE  SumFunctionOnSet(f, S) = (CHOOSE g : Sums(f, S, g))[S]
BY DEF SumFunctionOnSet, FoldFunctionOnSet, MapThenFoldSet, Sums, Chosen

LEMMA ChosenFacts ==
    ASSUME NEW s, s # {}
    PROVE  Chosen(s) \in s /\ s \ {Chosen(s)} \subseteq s /\ s \ {Chosen(s)} # s
<1>1. Chosen(s) \in s
  BY DEF Chosen
<1>. QED  BY <1>1

\* Subsets of at most n elements have their sums.
Upto(S, n) == {s \in SUBSET S : Cardinality(s) <= n}

PartialSums(f, S, n, g) ==
    \A s \in Upto(S, n) :
        g[s] = IF s = {} THEN 0 ELSE f[Chosen(s)] + g[s \ {Chosen(s)}]

\* Induction over the naturals, by the set of those a fact fails of.
LEMMA LeastNatural ==
    ASSUME NEW C, C \subseteq Nat, C # {}
    PROVE  \E m \in C : \A n \in C : m <= n
<1>1. PICK m \in C : \A n \in C : <<n, m>> \notin OpToRel(<, Nat)
  BY NatLessThanWellFounded, WFMin, Zenon
<1>2. \A n \in C : ~(n < m)
  BY <1>1 DEF OpToRel
<1>3. \A n \in C : m <= n
  BY <1>2
<1>. QED  BY <1>3

LEMMA PartialSumsExist ==
    ASSUME NEW f, NEW S, IsFiniteSet(S), NEW n \in Nat
    PROVE  \E g : PartialSums(f, S, n, g)
<1>. DEFINE C == {k \in Nat : ~\E g : PartialSums(f, S, k, g)}
<1>1. SUFFICES ASSUME C # {} PROVE FALSE
  OBVIOUS
<1>2. PICK m \in C : \A k \in C : m <= k
  BY <1>1, LeastNatural
<1>3. \A s \in SUBSET S : IsFiniteSet(s) /\ Cardinality(s) \in Nat
  BY FS_Subset, FS_CardinalityType
<1>4. m # 0
  <2>1. \A s \in Upto(S, 0) : s = {}
    BY <1>3, FS_EmptySet DEF Upto
  <2>2. PartialSums(f, S, 0, [s \in SUBSET S |-> 0])
    BY <2>1 DEF PartialSums, Upto
  <2>. QED  BY <2>2
<1>5. m - 1 \in Nat /\ m - 1 \notin C
  BY <1>2, <1>4
<1>6. PICK g : PartialSums(f, S, m - 1, g)
  BY <1>5
<1>. DEFINE h == [s \in SUBSET S |->
                    IF Cardinality(s) <= m - 1 THEN g[s]
                    ELSE f[Chosen(s)] + g[s \ {Chosen(s)}]]
<1>7. PartialSums(f, S, m, h)
  <2>. SUFFICES ASSUME NEW s \in Upto(S, m)
                PROVE  h[s] = IF s = {} THEN 0 ELSE f[Chosen(s)] + h[s \ {Chosen(s)}]
    BY DEF PartialSums
  <2>1. s \in SUBSET S /\ Cardinality(s) <= m
    BY DEF Upto
  <2>2. CASE s = {}
    <3>1. Cardinality(s) <= m - 1
      BY <1>5, <2>2, FS_EmptySet
    <3>2. g[s] = 0
      BY <1>6, <2>1, <2>2, <3>1 DEF PartialSums, Upto
    <3>. QED  BY <2>1, <2>2, <3>1, <3>2
  <2>3. CASE s # {}
    <3>. DEFINE r == s \ {Chosen(s)}
    <3>1. Chosen(s) \in s /\ r \in SUBSET S
      BY <2>1, <2>3, ChosenFacts
    <3>2. Cardinality(r) = Cardinality(s) - 1
      BY <1>3, <2>1, <3>1, FS_RemoveElement
    <3>3. Cardinality(r) <= m - 1 /\ Cardinality(s) \in Nat /\ m \in Nat
      BY <1>3, <2>1, <3>2
    <3>4. h[r] = g[r]
      BY <3>1, <3>3
    <3>5. h[s] = f[Chosen(s)] + g[r]
      <4>1. CASE Cardinality(s) <= m - 1
        <5>1. h[s] = g[s]
          BY <2>1, <4>1
        <5>2. s \in Upto(S, m - 1)
          BY <2>1, <4>1 DEF Upto
        <5>3. g[s] = f[Chosen(s)] + g[r]
          BY <1>6, <2>3, <5>2 DEF PartialSums
        <5>. QED  BY <5>1, <5>3
      <4>2. CASE ~(Cardinality(s) <= m - 1)
        BY <2>1, <4>2
      <4>. QED  BY <4>1, <4>2
    <3>. QED  BY <2>3, <3>4, <3>5
  <2>. QED  BY <2>2, <2>3
<1>. QED  BY <1>2, <1>7

\* The recursion has a solution, so CHOOSE picks one.
LEMMA SumsExist ==
    ASSUME NEW f, NEW S, IsFiniteSet(S)
    PROVE  Sums(f, S, CHOOSE g : Sums(f, S, g))
<1>1. PICK g : PartialSums(f, S, Cardinality(S), g)
  BY PartialSumsExist, FS_CardinalityType
<1>. DEFINE h == [s \in SUBSET S |-> g[s]]
<1>2. \A s \in SUBSET S : s \in Upto(S, Cardinality(S))
  BY FS_Subset DEF Upto
<1>3. ASSUME NEW s \in SUBSET S
      PROVE  h[s] = IF s = {} THEN 0 ELSE f[Chosen(s)] + h[s \ {Chosen(s)}]
  <2>1. s \ {Chosen(s)} \in SUBSET S
    OBVIOUS
  <2>2. g[s] = IF s = {} THEN 0 ELSE f[Chosen(s)] + g[s \ {Chosen(s)}]
    BY <1>1, <1>2 DEF PartialSums
  <2>. QED  BY <2>1, <2>2
<1>4. h = [s \in SUBSET S |-> IF s = {} THEN 0 ELSE f[Chosen(s)] + h[s \ {Chosen(s)}]]
  <2>. DEFINE k == [s \in SUBSET S |-> IF s = {} THEN 0 ELSE f[Chosen(s)] + h[s \ {Chosen(s)}]]
  <2>1. \A s \in SUBSET S : h[s] = k[s]
    BY <1>3
  <2>2. h = [s \in SUBSET S |-> h[s]] /\ k = [s \in SUBSET S |-> k[s]]
    OBVIOUS
  <2>. HIDE DEF h, k
  <2>3. h = k
    BY <2>1, <2>2
  <2>. QED  BY <2>3 DEF k
<1>. HIDE DEF h
<1>5. Sums(f, S, h)
  BY <1>4 DEF Sums
<1>. QED  BY <1>5

\* Solutions over S and over one of its subsets agree.
LEMMA SumsUnique ==
    ASSUME NEW f, NEW S, IsFiniteSet(S), NEW T, T \subseteq S,
           NEW g, Sums(f, S, g), NEW h, Sums(f, T, h)
    PROVE  \A s \in SUBSET T : g[s] = h[s]
<1>. DEFINE C == {s \in SUBSET T : g[s] # h[s]}
<1>1. SUFFICES ASSUME C # {} PROVE FALSE
  OBVIOUS
<1>2. IsFiniteSet(T) /\ C \subseteq SUBSET T
  BY FS_Subset
<1>3. PICK m \in C : \A t \in C : t \subseteq m => t = m
  <2>. HIDE DEF C
  <2>. QED  BY <1>1, <1>2, MinimalSubset
<1>4. g[m] = (IF m = {} THEN 0 ELSE f[Chosen(m)] + g[m \ {Chosen(m)}])
      /\ h[m] = (IF m = {} THEN 0 ELSE f[Chosen(m)] + h[m \ {Chosen(m)}])
  BY DEF Sums
<1>5. CASE m # {}
  <2>1. m \ {Chosen(m)} \in SUBSET T /\ m \ {Chosen(m)} \notin C
    BY <1>3, <1>5, ChosenFacts
  <2>. QED  BY <1>4, <1>5, <2>1
<1>. QED  BY <1>4, <1>5

LEMMA SumOver ==
    ASSUME NEW f, NEW S, IsFiniteSet(S), NEW g, Sums(f, S, g), NEW T, T \subseteq S
    PROVE  SumFunctionOnSet(f, T) = g[T]
<1>1. IsFiniteSet(T)
  BY FS_Subset
<1>2. Sums(f, T, CHOOSE h : Sums(f, T, h))
  BY <1>1, SumsExist
<1>. DEFINE k == CHOOSE h : Sums(f, T, h)
<1>3. SumFunctionOnSet(f, T) = k[T]
  BY SumDef
<1>. HIDE DEF k
<1>4. Sums(f, T, k)
  BY <1>2 DEF k
<1>5. g[T] = k[T]
  BY <1>4, SumsUnique
<1>. QED  BY <1>3, <1>5

----------------------------------------------------------------------------
\* The sum over no element.
THEOREM SumEmpty ==
    ASSUME NEW f
    PROVE  SumFunctionOnSet(f, {}) = 0
<1>1. Sums(f, {}, CHOOSE g : Sums(f, {}, g))
  BY SumsExist, FS_EmptySet
<1>2. (CHOOSE g : Sums(f, {}, g))[{}] = 0
  BY <1>1 DEF Sums
<1>. QED  BY <1>2, SumDef

\* The sum, unfolded once.
LEMMA SumUnfold ==
    ASSUME NEW f, NEW S, IsFiniteSet(S), S # {}
    PROVE  SumFunctionOnSet(f, S)
             = f[Chosen(S)] + SumFunctionOnSet(f, S \ {Chosen(S)})
<1>1. PICK g : Sums(f, S, g)
  BY SumsExist
<1>2. SumFunctionOnSet(f, S) = g[S]
      /\ SumFunctionOnSet(f, S \ {Chosen(S)}) = g[S \ {Chosen(S)}]
  BY <1>1, SumOver
<1>. QED  BY <1>1, <1>2 DEF Sums

\* A minimal subset a fact fails of is not empty if it holds of the empty set,
\* and it holds of the subset less any of its elements.
LEMMA MinimalFailure ==
    ASSUME NEW S, IsFiniteSet(S), NEW C, C \subseteq SUBSET S, C # {}, {} \notin C
    PROVE  \E m \in C : /\ m # {} /\ IsFiniteSet(m) /\ Chosen(m) \in m
                        /\ \A x \in m : m \ {x} \notin C
<1>1. PICK m \in C : \A t \in C : t \subseteq m => t = m
  BY MinimalSubset
<1>2. m # {} /\ IsFiniteSet(m)
  BY FS_Subset
<1>3. Chosen(m) \in m
  BY <1>2, ChosenFacts
<1>4. ASSUME NEW x \in m PROVE m \ {x} \notin C
  <2>1. m \ {x} \subseteq m /\ m \ {x} # m
    OBVIOUS
  <2>. QED  BY <1>1, <2>1
<1>. QED  BY <1>2, <1>3, <1>4

\* A finite set of integers has a greatest element.
LEMMA GreatestExists ==
    ASSUME NEW S, IsFiniteSet(S), S \subseteq Int, S # {}
    PROVE  \E m \in S : \A n \in S : n <= m
<1>. DEFINE C == {t \in SUBSET S : t # {} /\ ~\E m \in t : \A n \in t : n <= m}
<1>1. SUFFICES ASSUME C # {} PROVE FALSE
  BY Zenon
<1>2. C \subseteq SUBSET S /\ {} \notin C
  OBVIOUS
<1>3. PICK t \in C : t # {} /\ \A x \in t : t \ {x} \notin C
  <2>. HIDE DEF C
  <2>. QED  BY <1>1, <1>2, MinimalFailure
<1>4. PICK x \in t : TRUE
  BY <1>3
<1>5. CASE t \ {x} = {}
  <2>1. \A n \in t : n <= x
    BY <1>3, <1>5
  <2>. QED  BY <1>3, <2>1
<1>6. CASE t \ {x} # {}
  <2>1. PICK m \in t \ {x} : \A n \in t \ {x} : n <= m
    BY <1>3, <1>6
  <2>2. m \in Int /\ x \in Int
    BY <1>3
  <2>3. CASE m <= x
    <3>1. \A n \in t : n <= x
      BY <1>3, <2>1, <2>2, <2>3
    <3>. QED  BY <1>3, <3>1
  <2>4. CASE x <= m
    <3>1. \A n \in t : n <= m
      BY <1>3, <2>1, <2>2, <2>4
    <3>. QED  BY <1>3, <2>1, <3>1
  <2>. QED  BY <2>2, <2>3, <2>4
<1>. QED  BY <1>5, <1>6

THEOREM SumType ==
    ASSUME NEW S, IsFiniteSet(S), NEW f, \A x \in S : f[x] \in Int
    PROVE  SumFunctionOnSet(f, S) \in Int
<1>. DEFINE C == {s \in SUBSET S : SumFunctionOnSet(f, s) \notin Int}
<1>1. SUFFICES ASSUME C # {} PROVE FALSE
  OBVIOUS
<1>2. {} \notin C
  BY SumEmpty
<1>3. PICK m \in C : /\ m # {} /\ IsFiniteSet(m) /\ Chosen(m) \in m
                     /\ \A x \in m : m \ {x} \notin C
  <2>1. C \subseteq SUBSET S
    OBVIOUS
  <2>. HIDE DEF C
  <2>. QED  BY <1>1, <1>2, <2>1, MinimalFailure
<1>4. SumFunctionOnSet(f, m \ {Chosen(m)}) \in Int /\ f[Chosen(m)] \in Int
  BY <1>3
<1>5. SumFunctionOnSet(f, m) = f[Chosen(m)] + SumFunctionOnSet(f, m \ {Chosen(m)})
  BY <1>3, SumUnfold
<1>. QED  BY <1>4, <1>5

\* Any element may be taken first.
THEOREM SumRemove ==
    ASSUME NEW S, IsFiniteSet(S), NEW f, \A x \in S : f[x] \in Int, NEW x \in S
    PROVE  SumFunctionOnSet(f, S) = f[x] + SumFunctionOnSet(f, S \ {x})
<1>. DEFINE Off(s) == \E y \in s : SumFunctionOnSet(f, s)
                                     # f[y] + SumFunctionOnSet(f, s \ {y})
            C == {s \in SUBSET S : Off(s)}
<1>1. SUFFICES ASSUME C # {} PROVE FALSE
  <2>1. Off(S) => C # {}
    OBVIOUS
  <2>. QED  BY <2>1
<1>2. PICK m \in C : /\ m # {} /\ IsFiniteSet(m) /\ Chosen(m) \in m
                     /\ \A y \in m : m \ {y} \notin C
  <2>1. C \subseteq SUBSET S /\ {} \notin C
    OBVIOUS
  <2>. HIDE DEF C
  <2>. QED  BY <1>1, <2>1, MinimalFailure
<1>3. PICK y \in m : SumFunctionOnSet(f, m) # f[y] + SumFunctionOnSet(f, m \ {y})
  OBVIOUS
<1>. DEFINE c == Chosen(m)
            rest == (m \ {c}) \ {y}
<1>4. SumFunctionOnSet(f, m) = f[c] + SumFunctionOnSet(f, m \ {c})
  BY <1>2, SumUnfold
<1>5. y # c
  BY <1>3, <1>4
<1>6. ~Off(m \ {c}) /\ ~Off(m \ {y})
  BY <1>2
<1>7. SumFunctionOnSet(f, m \ {c}) = f[y] + SumFunctionOnSet(f, rest)
  BY <1>5, <1>6
<1>8. (m \ {y}) \ {c} = rest
  OBVIOUS
<1>9. SumFunctionOnSet(f, m \ {y}) = f[c] + SumFunctionOnSet(f, rest)
  BY <1>2, <1>5, <1>6, <1>8
<1>10. SumFunctionOnSet(f, rest) \in Int /\ f[c] \in Int /\ f[y] \in Int
  <2>1. rest \subseteq S /\ m \subseteq S /\ IsFiniteSet(rest)
    BY <1>2, FS_Subset
  <2>. QED  BY <1>2, <2>1, SumType
<1>. HIDE DEF c, rest, C
<1>. QED  BY <1>3, <1>4, <1>7, <1>9, <1>10

THEOREM SumAdd ==
    ASSUME NEW S, IsFiniteSet(S), NEW x, x \notin S,
           NEW f, \A y \in S \cup {x} : f[y] \in Int
    PROVE  SumFunctionOnSet(f, S \cup {x}) = SumFunctionOnSet(f, S) + f[x]
<1>1. IsFiniteSet(S \cup {x}) /\ (S \cup {x}) \ {x} = S
  BY FS_AddElement
<1>2. SumFunctionOnSet(f, S \cup {x}) = f[x] + SumFunctionOnSet(f, S)
  BY <1>1, SumRemove
<1>3. SumFunctionOnSet(f, S) \in Int /\ f[x] \in Int
  BY SumType
<1>. QED  BY <1>2, <1>3

\* Only the values over the set matter.
THEOREM SumSame ==
    ASSUME NEW S, IsFiniteSet(S), NEW f, NEW g, \A x \in S : f[x] = g[x]
    PROVE  SumFunctionOnSet(f, S) = SumFunctionOnSet(g, S)
<1>. DEFINE C == {s \in SUBSET S : SumFunctionOnSet(f, s) # SumFunctionOnSet(g, s)}
<1>1. SUFFICES ASSUME C # {} PROVE FALSE
  OBVIOUS
<1>2. {} \notin C
  BY SumEmpty
<1>3. PICK m \in C : /\ m # {} /\ IsFiniteSet(m) /\ Chosen(m) \in m
                     /\ \A x \in m : m \ {x} \notin C
  <2>1. C \subseteq SUBSET S
    OBVIOUS
  <2>. HIDE DEF C
  <2>. QED  BY <1>1, <1>2, <2>1, MinimalFailure
<1>4. SumFunctionOnSet(f, m \ {Chosen(m)}) = SumFunctionOnSet(g, m \ {Chosen(m)})
      /\ f[Chosen(m)] = g[Chosen(m)]
  BY <1>3
<1>5. SumFunctionOnSet(f, m) = f[Chosen(m)] + SumFunctionOnSet(f, m \ {Chosen(m)})
      /\ SumFunctionOnSet(g, m) = g[Chosen(m)] + SumFunctionOnSet(g, m \ {Chosen(m)})
  BY <1>3, SumUnfold
<1>. QED  BY <1>4, <1>5

\* A sum of zeros.
THEOREM SumZero ==
    ASSUME NEW S, IsFiniteSet(S), NEW f, \A x \in S : f[x] = 0
    PROVE  SumFunctionOnSet(f, S) = 0
<1>. DEFINE C == {s \in SUBSET S : SumFunctionOnSet(f, s) # 0}
<1>1. SUFFICES ASSUME C # {} PROVE FALSE
  OBVIOUS
<1>2. {} \notin C
  BY SumEmpty
<1>3. PICK m \in C : /\ m # {} /\ IsFiniteSet(m) /\ Chosen(m) \in m
                     /\ \A x \in m : m \ {x} \notin C
  <2>1. C \subseteq SUBSET S
    OBVIOUS
  <2>. HIDE DEF C
  <2>. QED  BY <1>1, <1>2, <2>1, MinimalFailure
<1>4. SumFunctionOnSet(f, m \ {Chosen(m)}) = 0 /\ f[Chosen(m)] = 0
  BY <1>3
<1>5. SumFunctionOnSet(f, m) = f[Chosen(m)] + SumFunctionOnSet(f, m \ {Chosen(m)})
  BY <1>3, SumUnfold
<1>. QED  BY <1>4, <1>5

\* A sum of natural numbers.
THEOREM SumNat ==
    ASSUME NEW S, IsFiniteSet(S), NEW f, \A x \in S : f[x] \in Nat
    PROVE  SumFunctionOnSet(f, S) \in Nat
<1>. DEFINE C == {s \in SUBSET S : SumFunctionOnSet(f, s) \notin Nat}
<1>1. SUFFICES ASSUME C # {} PROVE FALSE
  OBVIOUS
<1>2. {} \notin C
  BY SumEmpty
<1>3. PICK m \in C : /\ m # {} /\ IsFiniteSet(m) /\ Chosen(m) \in m
                     /\ \A x \in m : m \ {x} \notin C
  <2>1. C \subseteq SUBSET S
    OBVIOUS
  <2>. HIDE DEF C
  <2>. QED  BY <1>1, <1>2, <2>1, MinimalFailure
<1>4. SumFunctionOnSet(f, m \ {Chosen(m)}) \in Nat /\ f[Chosen(m)] \in Nat
  BY <1>3
<1>5. SumFunctionOnSet(f, m) = f[Chosen(m)] + SumFunctionOnSet(f, m \ {Chosen(m)})
  BY <1>3, SumUnfold
<1>. QED  BY <1>4, <1>5

\* One term changes: so does the sum, by as much.
THEOREM SumChange ==
    ASSUME NEW S, IsFiniteSet(S), NEW x \in S,
           NEW f, \A y \in S : f[y] \in Int, NEW g, g[x] \in Int,
           \A y \in S \ {x} : g[y] = f[y]
    PROVE  SumFunctionOnSet(g, S) = SumFunctionOnSet(f, S) + (g[x] - f[x])
<1>1. IsFiniteSet(S \ {x}) /\ \A y \in S : g[y] \in Int
  BY FS_RemoveElement
<1>2. SumFunctionOnSet(f, S) = f[x] + SumFunctionOnSet(f, S \ {x})
  BY SumRemove
<1>3. SumFunctionOnSet(g, S) = g[x] + SumFunctionOnSet(g, S \ {x})
  BY <1>1, SumRemove
<1>4. SumFunctionOnSet(g, S \ {x}) = SumFunctionOnSet(f, S \ {x})
  BY <1>1, SumSame
<1>5. SumFunctionOnSet(f, S \ {x}) \in Int /\ f[x] \in Int
  BY <1>1, SumType
<1>. QED  BY <1>2, <1>3, <1>4, <1>5

-----------------------------------------------------------------------------
\* The sum of the first k terms.
PrefixSum(f, k) == SumFunctionOnSet(f, 1..k)

LEMMA PrefixSumZero ==
    ASSUME NEW f
    PROVE  PrefixSum(f, 0) = 0
<1>1. 1..0 = {}
  OBVIOUS
<1>. QED  BY <1>1, SumEmpty DEF PrefixSum

LEMMA PrefixSumType ==
    ASSUME NEW k \in Nat, NEW f, \A i \in 1..k : f[i] \in Int
    PROVE  PrefixSum(f, k) \in Int
<1>1. IsFiniteSet(1..k)
  BY FS_Interval
<1>. QED  BY <1>1, SumType DEF PrefixSum

LEMMA PrefixSumNext ==
    ASSUME NEW k \in Nat, NEW f, \A i \in 1..k + 1 : f[i] \in Int
    PROVE  PrefixSum(f, k + 1) = PrefixSum(f, k) + f[k + 1]
<1>1. IsFiniteSet(1..k)
  BY FS_Interval
<1>2. 1..k + 1 = (1..k) \cup {k + 1} /\ k + 1 \notin 1..k
  OBVIOUS
<1>3. \A i \in (1..k) \cup {k + 1} : f[i] \in Int
  BY <1>2
<1>4. SumFunctionOnSet(f, (1..k) \cup {k + 1}) = SumFunctionOnSet(f, 1..k) + f[k + 1]
  BY <1>1, <1>2, <1>3, SumAdd
<1>. QED  BY <1>2, <1>4 DEF PrefixSum

LEMMA PrefixSumSame ==
    ASSUME NEW k \in Nat, NEW f, NEW g, \A i \in 1..k : f[i] = g[i]
    PROVE  PrefixSum(f, k) = PrefixSum(g, k)
<1>1. IsFiniteSet(1..k)
  BY FS_Interval
<1>. QED  BY <1>1, SumSame DEF PrefixSum

\* A sequence of integers with one more at its end.
THEOREM SumAppend ==
    ASSUME NEW s \in Seq(Int), NEW x \in Int
    PROVE  /\ SumFunction(s) \in Int
           /\ SumFunction(Append(s, x)) = SumFunction(s) + x
<1>. DEFINE n == Len(s)
            t == Append(s, x)
<1>1. n \in Nat /\ DOMAIN s = 1..n /\ DOMAIN t = 1..n + 1
  OBVIOUS
<1>2. \A i \in 1..n : t[i] = s[i] /\ s[i] \in Int
  OBVIOUS
<1>3. t[n + 1] = x /\ \A i \in 1..n + 1 : t[i] \in Int
  OBVIOUS
<1>. HIDE DEF n, t
<1>4. PrefixSum(t, n + 1) = PrefixSum(t, n) + t[n + 1]
  BY <1>1, <1>3, PrefixSumNext
<1>5. PrefixSum(t, n) = PrefixSum(s, n) /\ PrefixSum(s, n) \in Int
  BY <1>1, <1>2, PrefixSumSame, PrefixSumType
<1>6. SumFunction(t) = PrefixSum(t, n + 1) /\ SumFunction(s) = PrefixSum(s, n)
  BY <1>1 DEF SumFunction, PrefixSum
<1>. QED  BY <1>3, <1>4, <1>5, <1>6 DEF t

=============================================================================
